---- MODULE Spec2Model ----
(***************************************************************************)
(* NeuroPulse stream-processing core: the circuit breaker guarding the     *)
(* prediction / explanation dependencies and the per-case join performed   *)
(* by StreamProcessor.run.                                                  *)
(***************************************************************************)
EXTENDS Integers, Sequences, FiniteSets, TLC

VARIABLES
    breakers,          \* breaker name -> CircuitBreaker fields
    now,               \* time.time()
    pc,                \* caller -> position inside CircuitBreaker.call
    invocations,       \* history: breaker -> times the wrapped function was entered
    consec_failures,   \* history: breaker -> failing invocations since the last success
    failures_total,    \* history: breaker -> failing invocations ever
    last_transition,   \* history: breaker -> <<from, to>> of its latest mode change
    breaker_globals,   \* _vertex_ai_breaker, _gemini_breaker: the object held, or None
    got,               \* history: breaker -> objects its getter has returned so far
    latest_vitals,     \* StreamProcessor.latest_vitals: case -> Reading
    latest_fast_exam,  \* StreamProcessor.latest_fast_exam: case -> ScreeningResult
    latest_capacity,   \* StreamProcessor.latest_capacity: list of CapacitySnapshot
    processed_cases,   \* StreamProcessor.processed_cases
    published,         \* predictions produced to ai.prediction.output, in order
    running,           \* state of the loop of StreamProcessor.run
    consumed,          \* messages polled so far
    last_event,        \* history: what the latest handled message did
    vital_history,     \* TrendAnalyzer.vital_history: case -> list of VitalSnapshot
    added,             \* history: case -> number of add_vital_snapshot calls
    configured,        \* dependencies whose environment configuration is set
    call_args,         \* arguments of the function under study
    call_result,       \* what it returned (<<>> before the call)
    handling           \* messages polled by run whose handler has not returned yet

breaker_vars == <<breakers, now, pc, invocations, consec_failures,
                  failures_total, last_transition, breaker_globals, got>>

proc_vars == <<latest_vitals, latest_fast_exam, latest_capacity, processed_cases,
               published, running, consumed, last_event, vital_history, added,
               configured, call_args, call_result, handling>>

vars == <<breakers, now, pc, invocations, consec_failures, failures_total,
          last_transition, breaker_globals, got, latest_vitals, latest_fast_exam, latest_capacity,
          processed_cases, published, running, consumed, last_event, vital_history,
          added, configured, call_args, call_result, handling>>

----------------------------------------------------------------------------
(* Circuit breaker: circuit_breaker.py                                     *)

CLOSED == "closed"
OPEN == "open"
HALF_OPEN == "half_open"
CircuitState == {CLOSED, OPEN, HALF_OPEN}

\* CircuitBreakerConfig of the two process-wide breakers
failure_threshold == 3
success_threshold == 2
timeout == 30

BreakerNames == {"vertex_ai", "gemini"}

\* Bounds of the model
MaxTime == 90
TickStep == 15
MaxCalls == 6

\* Threads that may be inside CircuitBreaker.call; the stream processor is "k1"
Callers == {"k1", "k2"}
SeqCallers == {"k1"}

Idle == [at |-> "idle", breaker |-> "none", result |-> "none"]

\* CircuitBreaker.__init__
NewBreaker == [state |-> CLOSED, failure_count |-> 0, success_count |-> 0,
               last_failure_time |-> <<>>]

\* Faulty variants of the handlers below, used to show that the properties of the
\* breaker tell the handlers from near misses.
\* _on_failure opening one failure late (> for >=)
_on_failure_late_open(br, t) ==
    LET b1 == [br EXCEPT !.failure_count = br.failure_count + 1,
                         !.last_failure_time = <<t>>] IN
    IF b1.state = HALF_OPEN
    THEN [b1 EXCEPT !.state = OPEN, !.success_count = 0]
    ELSE IF b1.failure_count > failure_threshold
         THEN [b1 EXCEPT !.state = OPEN]
         ELSE b1

\* _on_failure without its HALF_OPEN branch
_on_failure_no_half_open(br, t) ==
    LET b1 == [br EXCEPT !.failure_count = br.failure_count + 1,
                         !.last_failure_time = <<t>>] IN
    IF b1.failure_count >= failure_threshold
    THEN [b1 EXCEPT !.state = OPEN]
    ELSE b1

\* _on_success that leaves failure_count alone outside HALF_OPEN
_on_success_keeps_count(br) ==
    IF br.state = HALF_OPEN
    THEN LET n == br.success_count + 1 IN
         IF n >= success_threshold
         THEN [br EXCEPT !.state = CLOSED, !.failure_count = 0, !.success_count = 0]
         ELSE [br EXCEPT !.success_count = n]
    ELSE br

\* _on_success closing one success late (> for >=)
_on_success_late_close(br) ==
    IF br.state = HALF_OPEN
    THEN LET n == br.success_count + 1 IN
         IF n > success_threshold
         THEN [br EXCEPT !.state = CLOSED, !.failure_count = 0, !.success_count = 0]
         ELSE [br EXCEPT !.success_count = n]
    ELSE [br EXCEPT !.failure_count = 0]

\* _on_success closing the breaker without setting success_count back to 0
_on_success_no_reset(br) ==
    IF br.state = HALF_OPEN
    THEN LET n == br.success_count + 1 IN
         IF n >= success_threshold
         THEN [br EXCEPT !.state = CLOSED, !.failure_count = 0, !.success_count = n]
         ELSE [br EXCEPT !.success_count = n]
    ELSE [br EXCEPT !.failure_count = 0]

\* CircuitBreaker._should_attempt_reset; an Optional[float] is a sequence of length <= 1
_should_attempt_reset(br, t) ==
    IF br.last_failure_time = <<>>
    THEN TRUE
    ELSE t - br.last_failure_time[1] >= timeout

\* CircuitBreaker._on_success
_on_success(br) ==
    IF br.state = HALF_OPEN
    THEN LET n == br.success_count + 1 IN
         IF n >= success_threshold
         THEN [br EXCEPT !.state = CLOSED, !.failure_count = 0, !.success_count = 0]
         ELSE [br EXCEPT !.success_count = n]
    ELSE [br EXCEPT !.failure_count = 0]

\* CircuitBreaker._on_failure
_on_failure(br, t) ==
    LET b1 == [br EXCEPT !.failure_count = br.failure_count + 1,
                         !.last_failure_time = <<t>>] IN
    IF b1.state = HALF_OPEN
    THEN [b1 EXCEPT !.state = OPEN, !.success_count = 0]
    ELSE IF b1.failure_count >= failure_threshold
         THEN [b1 EXCEPT !.state = OPEN]
         ELSE b1

\* history of mode changes, computed from the before / after records
Transition(b, old, new) ==
    IF new.state # old.state
    THEN [last_transition EXCEPT ![b] = <<old.state, new.state>>]
    ELSE last_transition

\* wrapped-function invocations made so far, over both breakers
TotalInvocations == invocations["vertex_ai"] + invocations["gemini"]

\* CircuitBreaker.call whose rejection restarts the timeout
call_check_postponing(k, b) ==
    /\ pc[k].at = "idle"
    /\ TotalInvocations < MaxCalls
    /\ LET br == breakers[b] IN
       IF br.state = OPEN /\ ~_should_attempt_reset(br, now)
       THEN /\ pc' = [pc EXCEPT ![k] = [at |-> "returned", breaker |-> b,
                                        result |-> "open_error"]]
            /\ breakers' = [breakers EXCEPT ![b].last_failure_time = <<now>>]
            /\ UNCHANGED <<invocations, last_transition>>
       ELSE LET b1 == IF br.state = OPEN
                      THEN [br EXCEPT !.state = HALF_OPEN, !.success_count = 0]
                      ELSE br IN
            /\ breakers' = [breakers EXCEPT ![b] = b1]
            /\ last_transition' = Transition(b, br, b1)
            /\ invocations' = [invocations EXCEPT ![b] = @ + 1]
            /\ pc' = [pc EXCEPT ![k] = [at |-> "invoking", breaker |-> b,
                                        result |-> "none"]]
    /\ UNCHANGED <<now, consec_failures, failures_total, breaker_globals, got>>
    /\ UNCHANGED proc_vars

\* CircuitBreaker.call, lines 78-89: the OPEN check made on entry
call_check(k, b) ==
    /\ pc[k].at = "idle"
    /\ TotalInvocations < MaxCalls
    /\ LET br == breakers[b] IN
       IF br.state = OPEN /\ ~_should_attempt_reset(br, now)
       THEN \* raise CircuitBreakerOpenError
            /\ pc' = [pc EXCEPT ![k] = [at |-> "returned", breaker |-> b,
                                        result |-> "open_error"]]
            /\ UNCHANGED <<breakers, invocations, last_transition>>
       ELSE LET b1 == IF br.state = OPEN
                      THEN [br EXCEPT !.state = HALF_OPEN, !.success_count = 0]
                      ELSE br IN
            /\ breakers' = [breakers EXCEPT ![b] = b1]
            /\ last_transition' = Transition(b, br, b1)
            /\ invocations' = [invocations EXCEPT ![b] = @ + 1]
            /\ pc' = [pc EXCEPT ![k] = [at |-> "invoking", breaker |-> b,
                                        result |-> "none"]]
    /\ UNCHANGED <<now, consec_failures, failures_total, breaker_globals, got>>
    /\ UNCHANGED proc_vars

\* CircuitBreaker.call, lines 91-99: func returns (ok) or raises, outcome recorded
call_return(k, ok) ==
    /\ pc[k].at = "invoking"
    /\ LET b == pc[k].breaker
           br == breakers[b]
           b1 == IF ok THEN _on_success(br) ELSE _on_failure(br, now) IN
       /\ breakers' = [breakers EXCEPT ![b] = b1]
       /\ last_transition' = Transition(b, br, b1)
       /\ consec_failures' = [consec_failures EXCEPT ![b] = IF ok THEN 0 ELSE @ + 1]
       /\ failures_total' = [failures_total EXCEPT ![b] = IF ok THEN @ ELSE @ + 1]
       /\ pc' = [pc EXCEPT ![k] = [at |-> "returned", breaker |-> b,
                                   result |-> IF ok THEN "ok" ELSE "error"]]
    /\ UNCHANGED <<now, invocations, breaker_globals, got>>
    /\ UNCHANGED proc_vars

\* the caller takes the result or the exception and goes on
caller_continue(k) ==
    /\ pc[k].at = "returned"
    /\ pc' = [pc EXCEPT ![k] = Idle]
    /\ UNCHANGED <<breakers, now, invocations, consec_failures,
                   failures_total, last_transition, breaker_globals, got>>
    /\ UNCHANGED proc_vars

\* a get_state that closes the breaker it reports on
get_state_closing(b) ==
    /\ b \in BreakerNames
    /\ breakers' = [breakers EXCEPT ![b].state = CLOSED]
    /\ UNCHANGED <<now, pc, invocations, consec_failures, failures_total,
                   last_transition, breaker_globals, got>>
    /\ UNCHANGED proc_vars

\* CircuitBreaker.get_state: builds a dict from the fields and writes nothing
get_state(b) ==
    /\ b \in BreakerNames
    /\ UNCHANGED vars

\* wall-clock time passes
Tick ==
    /\ now + TickStep <= MaxTime
    /\ now' = now + TickStep
    /\ UNCHANGED <<breakers, pc, invocations, consec_failures,
                   failures_total, last_transition, breaker_globals, got>>
    /\ UNCHANGED proc_vars

----------------------------------------------------------------------------
(* Trend analyzer: trend_analyzer.py                                       *)

Cases == {"c1", "c2"}

\* dict.get on a missing key, and any Optional that is None
Absent == <<>>

\* An ISO timestamp string: one with an offset ("aware"), one without ("naive"),
\* one that datetime.fromisoformat rejects ("invalid"), or None ("none")
NoTs == [kind |-> "none", sec |-> 0]
Ts(kind, sec) == [kind |-> kind, sec |-> sec]

\* TrendAnalyzer(max_history_size=20)
max_history_size == 20

\* VitalSnapshot
VitalSnapshot(timestamp, hr, bp, spo2, gcs) ==
    [timestamp |-> timestamp, heart_rate_bpm |-> hr, systolic_bp_mmHg |-> bp,
     spo2_pct |-> spo2, gcs_total |-> gcs]

\* the slice of lines 110-111 taken on the wrong side: keeps the oldest snapshots
add_vital_snapshot_keeps_oldest(case_id, snapshot) ==
    LET appended == Append(vital_history[case_id], snapshot)
        kept == IF Len(appended) > max_history_size
                THEN SubSeq(appended, 1, max_history_size)
                ELSE appended IN
    /\ vital_history' = [vital_history EXCEPT ![case_id] = kept]
    /\ added' = [added EXCEPT ![case_id] = @ + 1]
    /\ UNCHANGED <<latest_vitals, latest_fast_exam, latest_capacity, processed_cases,
                   published, running, consumed, last_event, configured, call_args,
                   call_result, handling>>
    /\ UNCHANGED breaker_vars

\* TrendAnalyzer.add_vital_snapshot
add_vital_snapshot(case_id, snapshot) ==
    LET appended == Append(vital_history[case_id], snapshot)
        kept == IF Len(appended) > max_history_size
                THEN SubSeq(appended, Len(appended) - max_history_size + 1,
                            Len(appended))
                ELSE appended IN
    /\ vital_history' = [vital_history EXCEPT ![case_id] = kept]
    /\ added' = [added EXCEPT ![case_id] = @ + 1]
    /\ UNCHANGED <<latest_vitals, latest_fast_exam, latest_capacity, processed_cases,
                   published, running, consumed, last_event, configured, call_args,
                   call_result, handling>>
    /\ UNCHANGED breaker_vars

\* TrendAnalyzer._parse_timestamp: seconds since the epoch, 0.0 when parsing fails
\* (a timestamp without offset is read in the process's time zone, taken as UTC)
_parse_timestamp(timestamp) ==
    IF timestamp.kind \in {"aware", "naive"} THEN timestamp.sec ELSE 0

\* [(self._parse_timestamp(s.timestamp), s.<vital>) for s in history if s.<vital> is not None]
values_of(history, vital) ==
    LET carrying == SelectSeq(history, LAMBDA sn : sn[vital] # Absent) IN
    [i \in 1..Len(carrying) |->
        [t |-> _parse_timestamp(carrying[i].timestamp), v |-> carrying[i][vital][1]]]

\* sorted(values, key=lambda x: x[0])[0]: earliest, the first of equals (stable sort)
sorted_first(values) ==
    values[CHOOSE i \in 1..Len(values) :
               \A j \in 1..Len(values) :
                   values[i].t < values[j].t \/ (values[i].t = values[j].t /\ i <= j)]

\* sorted(values, key=lambda x: x[0])[-1]: latest, the last of equals
sorted_last(values) ==
    values[CHOOSE i \in 1..Len(values) :
               \A j \in 1..Len(values) :
                   values[i].t > values[j].t \/ (values[i].t = values[j].t /\ i >= j)]

Abs(x) == IF x < 0 THEN -x ELSE x

\* _calculate_rate_and_trend without the sort of line 194: first and last in
\* arrival order
_calculate_rate_and_trend_unsorted(values) ==
    IF Len(values) < 2 THEN [rate |-> Absent, trend |-> Absent]
    ELSE
    LET first == values[1]
        last == values[Len(values)]
        time_diff_sec == last.t - first.t
        value_diff == last.v - first.v IN
    IF time_diff_sec = 0 THEN [rate |-> Absent, trend |-> Absent]
    ELSE [rate |-> <<[num |-> value_diff * 60, den |-> time_diff_sec]>>,
          trend |-> <<IF Abs(value_diff * 60) * 10 < Abs(time_diff_sec) THEN 0
                      ELSE IF value_diff * time_diff_sec > 0 THEN 1 ELSE -1>>]

\* _calculate_rate_and_trend with the comparison of line 205 made inclusive:
\* stable when abs(rate) <= 0.1
_calculate_rate_and_trend_inclusive(values) ==
    IF Len(values) < 2 THEN [rate |-> Absent, trend |-> Absent]
    ELSE
    LET first == sorted_first(values)
        last == sorted_last(values)
        time_diff_sec == last.t - first.t
        value_diff == last.v - first.v IN
    IF time_diff_sec = 0 THEN [rate |-> Absent, trend |-> Absent]
    ELSE [rate |-> <<[num |-> value_diff * 60, den |-> time_diff_sec]>>,
          trend |-> <<IF Abs(value_diff * 60) * 10 <= time_diff_sec THEN 0
                      ELSE IF value_diff > 0 THEN 1 ELSE -1>>]

\* TrendAnalyzer._calculate_rate_and_trend. The rate value_diff / time_diff_min is
\* kept as the exact fraction num / den (den > 0, seconds); abs(rate) < 0.1 is
\* |num| * 10 < den.
_calculate_rate_and_trend(values) ==
    IF Len(values) < 2 THEN [rate |-> Absent, trend |-> Absent]
    ELSE
    LET first == sorted_first(values)
        last == sorted_last(values)
        time_diff_sec == last.t - first.t
        value_diff == last.v - first.v IN
    IF time_diff_sec = 0 THEN [rate |-> Absent, trend |-> Absent]
    ELSE [rate |-> <<[num |-> value_diff * 60, den |-> time_diff_sec]>>,
          trend |-> <<IF Abs(value_diff * 60) * 10 < time_diff_sec THEN 0
                      ELSE IF value_diff > 0 THEN 1 ELSE -1>>]

RECURSIVE SumSeq(_)
SumSeq(xs) == IF xs = <<>> THEN 0 ELSE xs[1] + SumSeq(Tail(xs))

\* TrendAnalyzer._calculate_volatility: std_dev / mean, kept as its exact square
\* num / den = sum((n*x - S)^2) / (n * S^2), with S the sum of the n values
_calculate_volatility(values) ==
    LET n == Len(values)
        S == SumSeq([i \in 1..n |-> values[i].v]) IN
    IF n < 2 THEN Absent
    ELSE IF S = 0 THEN Absent
    ELSE <<[num |-> SumSeq([i \in 1..n |-> (n * values[i].v - S) * (n * values[i].v - S)]),
            den |-> n * S * S]>>

\* TrendFeatures() (the recent-change fields, which nothing reads, are left out)
TrendFeatures ==
    [hr_rate_of_change |-> Absent, hr_trend |-> Absent, hr_volatility |-> Absent,
     bp_rate_of_change |-> Absent, bp_trend |-> Absent, bp_volatility |-> Absent,
     spo2_rate_of_change |-> Absent, spo2_trend |-> Absent, spo2_volatility |-> Absent,
     gcs_rate_of_change |-> Absent, gcs_trend |-> Absent]

\* TrendAnalyzer.calculate_trends on the window of one case
calculate_trends(history) ==
    IF Len(history) < 2 THEN TrendFeatures
    ELSE
    LET hr == values_of(history, "heart_rate_bpm")
        bp == values_of(history, "systolic_bp_mmHg")
        spo2 == values_of(history, "spo2_pct")
        gcs == values_of(history, "gcs_total") IN
    [hr_rate_of_change |-> _calculate_rate_and_trend(hr).rate,
     hr_trend |-> _calculate_rate_and_trend(hr).trend,
     hr_volatility |-> _calculate_volatility(hr),
     bp_rate_of_change |-> _calculate_rate_and_trend(bp).rate,
     bp_trend |-> _calculate_rate_and_trend(bp).trend,
     bp_volatility |-> _calculate_volatility(bp),
     spo2_rate_of_change |-> _calculate_rate_and_trend(spo2).rate,
     spo2_trend |-> _calculate_rate_and_trend(spo2).trend,
     spo2_volatility |-> _calculate_volatility(spo2),
     gcs_rate_of_change |-> _calculate_rate_and_trend(gcs).rate,
     gcs_trend |-> _calculate_rate_and_trend(gcs).trend]

\* [s.<vital> for s in history if s.<vital> is not None]
carried(history, vital) ==
    LET carrying == SelectSeq(history, LAMBDA sn : sn[vital] # Absent) IN
    [i \in 1..Len(carrying) |-> carrying[i][vital][1]]

\* max(values) and min(values) of a non-empty list
max_of(values) ==
    CHOOSE m \in {values[i] : i \in 1..Len(values)} :
        \A i \in 1..Len(values) : m >= values[i]
min_of(values) ==
    CHOOSE m \in {values[i] : i \in 1..Len(values)} :
        \A i \in 1..Len(values) : m <= values[i]

\* the four checks of detect_anomalies, each the list of the flags it appends. A
\* flag is kept as its label and the numbers formatted into its message.
gcs_anomalies(gcs_values) ==
    IF Len(gcs_values) >= 2 /\ gcs_values[1] - gcs_values[Len(gcs_values)] >= 2
    THEN <<[flag |-> "Rapid GCS deterioration",
            detail |-> <<gcs_values[1], gcs_values[Len(gcs_values)]>>]>>
    ELSE <<>>

spo2_anomalies(spo2_values) ==
    IF Len(spo2_values) >= 2 /\ spo2_values[1] - spo2_values[Len(spo2_values)] >= 5
    THEN <<[flag |-> "Significant SpO2 decline",
            detail |-> <<spo2_values[1], spo2_values[Len(spo2_values)]>>]>>
    ELSE <<>>

hr_anomalies(hr_values) ==
    IF Len(hr_values) >= 1 /\ (max_of(hr_values) > 150 \/ min_of(hr_values) < 40)
    THEN <<[flag |-> "Extreme heart rate",
            detail |-> <<min_of(hr_values), max_of(hr_values)>>]>>
    ELSE <<>>

\* the pressure check measuring the change from the first value to the last
\* instead of between neighbours
bp_anomalies_first_to_last(bp_values) ==
    IF Len(bp_values) >= 2 /\ Abs(bp_values[Len(bp_values)] - bp_values[1]) > 50
    THEN <<[flag |-> "Unusual BP variation",
            detail |-> <<Abs(bp_values[Len(bp_values)] - bp_values[1])>>]>>
    ELSE <<>>

bp_anomalies(bp_values) ==
    IF Len(bp_values) < 2 THEN <<>>
    ELSE
    LET bp_changes == [i \in 1..(Len(bp_values) - 1) |-> Abs(bp_values[i + 1] - bp_values[i])]
        max_change == max_of(bp_changes) IN
    IF max_change > 50
    THEN <<[flag |-> "Unusual BP variation", detail |-> <<max_change>>]>>
    ELSE <<>>

\* TrendAnalyzer.detect_anomalies on the window of a case (empty for a case that
\* has none): nothing below 2 snapshots, then the four checks in order
detect_anomalies(history) ==
    IF Len(history) < 2 THEN <<>>
    ELSE gcs_anomalies(carried(history, "gcs_total"))
             \o spo2_anomalies(carried(history, "spo2_pct"))
             \o hr_anomalies(carried(history, "heart_rate_bpm"))
             \o bp_anomalies(carried(history, "systolic_bp_mmHg"))

----------------------------------------------------------------------------
(* Prediction and explanation services: vertex_ai_service.py, gemini_service.py *)

\* 1.0 in the fixed-point unit that probabilities and confidence are kept in
One == 10000

Min(a, b) == IF a < b THEN a ELSE b
Max(a, b) == IF a > b THEN a ELSE b

\* max(0.0, min(1.0, x))
clamp01(x) == Max(0, Min(One, x))

\* the breakers' fields and their history, as one record
BreakerState ==
    [breakers |-> breakers, invocations |-> invocations,
     consec_failures |-> consec_failures, failures_total |-> failures_total,
     last_transition |-> last_transition, breaker_globals |-> breaker_globals,
     got |-> got]

\* CircuitBreaker objects are told apart by the order of their construction
Constructed(cb) == Cardinality(UNION {cb.got[b] : b \in BreakerNames})

\* a getter that constructs a new CircuitBreaker on every call
get_breaker_always_new(cb, b) ==
    LET object == Constructed(cb) + 1 IN
    [cb EXCEPT !.breaker_globals[b] = <<object>>,
               !.got[b] = @ \cup {object},
               !.breakers[b] = NewBreaker]

\* get_vertex_ai_breaker / get_gemini_breaker run by one thread: the object in the
\* module global is returned, constructed first if the global is None
get_breaker(cb, b) ==
    IF cb.breaker_globals[b] = Absent
    THEN LET object == Constructed(cb) + 1 IN
         [cb EXCEPT !.breaker_globals[b] = <<object>>,
                    !.got[b] = @ \cup {object},
                    !.breakers[b] = NewBreaker]
    ELSE [cb EXCEPT !.got[b] = @ \cup {cb.breaker_globals[b][1]}]

\* CircuitBreaker.call run to completion by one thread at time t; ok: the wrapped
\* function returned (it raised otherwise)
call(cb, b, t, ok) ==
    LET br == cb.breakers[b] IN
    IF br.state = OPEN /\ ~_should_attempt_reset(br, t)
    THEN [cb |-> cb, result |-> "open_error"]
    ELSE
    LET b1 == IF br.state = OPEN
              THEN [br EXCEPT !.state = HALF_OPEN, !.success_count = 0]
              ELSE br
        b2 == IF ok THEN _on_success(b1) ELSE _on_failure(b1, t)
        lt == IF b2.state # b1.state THEN <<b1.state, b2.state>>
              ELSE IF b1.state # br.state THEN <<br.state, b1.state>>
              ELSE cb.last_transition[b] IN
    [cb |-> [cb EXCEPT !.breakers[b] = b2,
                       !.invocations[b] = @ + 1,
                       !.consec_failures[b] = IF ok THEN 0 ELSE @ + 1,
                       !.failures_total[b] = IF ok THEN @ ELSE @ + 1,
                       !.last_transition[b] = lt],
     result |-> IF ok THEN "ok" ELSE "error"]

\* _heuristic_predict: (stroke_probability, lvo_probability); 0.2 * fast_score / 3
\* is truncated to the unit
_heuristic_predict(request) ==
    LET fs == request.fast_score
        fast == fs # Absent /\ fs[1] # 0
        mins == request.minutes_since_symptom_onset
        gcs == request.gcs_total
        bp == request.systolic_bp_mmHg
        stroke == 2000
                  + (IF fast THEN (2000 * Min(fs[1], 3)) \div 3 ELSE 0)
                  + (IF request.face_droop_present THEN 1500 ELSE 0)
                  + (IF request.arm_weakness_any THEN 1200 ELSE 0)
                  + (IF request.speech_abnormal_any THEN 1000 ELSE 0)
                  + (IF mins = Absent THEN 0
                     ELSE IF mins[1] <= 270 THEN 800
                     ELSE IF mins[1] <= 360 THEN 500 ELSE 0)
                  + (IF gcs # Absent /\ gcs[1] < 15 THEN 1000 ELSE 0)
                  + (IF bp # Absent /\ bp[1] > 180 THEN 500 ELSE 0)
        lvo == 500
               + (IF fast /\ fs[1] >= 2 THEN 1500 ELSE 0)
               + (IF request.arm_weakness_any THEN 1200 ELSE 0)
               + (IF gcs # Absent /\ gcs[1] < 15 /\ gcs[1] < 13 THEN 800 ELSE 0) IN
    [stroke |-> clamp01(stroke), lvo |-> clamp01(lvo)]

\* predict_with_vertex_ai that lets the exception of breaker.call through
predict_with_vertex_ai_reraising(cb, request, t, response) ==
    IF "vertex_ai" \notin configured
    THEN [cb |-> cb, raised |-> FALSE, outcome |-> "unconfigured",
          value |-> _heuristic_predict(request)]
    ELSE
    LET r == call(get_breaker(cb, "vertex_ai"), "vertex_ai", t, response # Absent) IN
    IF r.result = "ok"
    THEN [cb |-> r.cb, raised |-> FALSE, outcome |-> "ok",
          value |-> [stroke |-> clamp01(response[1].stroke),
                     lvo |-> clamp01(response[1].lvo)]]
    ELSE [cb |-> r.cb, raised |-> TRUE, outcome |-> r.result, value |-> Absent]

\* predict_with_vertex_ai; response: what the endpoint returned, Absent when
\* _call_vertex_ai raises
predict_with_vertex_ai(cb, request, t, response) ==
    IF "vertex_ai" \notin configured
    THEN [cb |-> cb, raised |-> FALSE, outcome |-> "unconfigured",
          value |-> _heuristic_predict(request)]
    ELSE
    LET r == call(get_breaker(cb, "vertex_ai"), "vertex_ai", t, response # Absent) IN
    IF r.result = "ok"
    THEN [cb |-> r.cb, raised |-> FALSE, outcome |-> "ok",
          value |-> [stroke |-> clamp01(response[1].stroke),
                     lvo |-> clamp01(response[1].lvo)]]
    ELSE [cb |-> r.cb, raised |-> FALSE, outcome |-> r.result,
          value |-> _heuristic_predict(request)]

\* _generate_fallback_explanation: the template text, kept as the values it is
\* formatted from and the actions it lists
_generate_fallback_explanation(request, stroke_prob, lvo_prob, risk_category, recommended_hospital) ==
    LET mins == request.minutes_since_symptom_onset IN
    [source |-> "template",
     stroke_prob |-> stroke_prob,
     lvo_prob |-> lvo_prob,
     onset |-> IF mins = Absent THEN <<"unknown">>
               ELSE IF mins[1] < 60 THEN <<"minutes", mins[1]>>
               ELSE <<"hours", mins[1] \div 60>>,
     risk_category |-> risk_category,
     recommended_hospital |-> recommended_hospital,
     prenotify |-> IF request.ems_suspected_lvo \/ lvo_prob >= 4000
                   THEN "comprehensive" ELSE "primary",
     late |-> mins # Absent /\ mins[1] > 270]

\* generate_explanation_with_gemini; response: the text Gemini returned, Absent
\* when _call_gemini raises
generate_explanation_with_gemini(cb, request, stroke_prob, lvo_prob, risk_category, recommended_hospital, t, response) ==
    LET fallback == _generate_fallback_explanation(request, stroke_prob, lvo_prob,
                                                   risk_category, recommended_hospital)
    IN
    IF "gemini" \notin configured
    THEN [cb |-> cb, raised |-> FALSE, outcome |-> "unconfigured", value |-> fallback]
    ELSE
    LET r == call(get_breaker(cb, "gemini"), "gemini", t, response # Absent) IN
    IF r.result = "ok"
    THEN [cb |-> r.cb, raised |-> FALSE, outcome |-> "ok",
          value |-> [source |-> "gemini", text |-> response[1]]]
    ELSE [cb |-> r.cb, raised |-> FALSE, outcome |-> r.result, value |-> fallback]

----------------------------------------------------------------------------
(* Stream processor: stream_processor.py                                   *)

Hospitals == {"H1", "H2"}

\* Bound of the model: messages polled by run
MaxEvents == 4

\* Decoded events, as the parsers accept them (dataclass fields that play no part
\* in the join are left out)
\* EmsVitalsEvent; in the events fed to the loop the second reading of a sequence
\* is the one with the lowered consciousness score
Reading(case_id, event_ts, sequence_number) ==
    [case_id |-> case_id, event_ts |-> event_ts, sequence_number |-> sequence_number,
     heart_rate_bpm |-> <<88>>, systolic_bp_mmHg |-> <<185>>, spo2_pct |-> <<96>>,
     gcs_total |-> IF sequence_number = 1 THEN <<15>> ELSE <<12>>]
Readings ==
    {Reading(c, ts, n) : c \in Cases, ts \in {Ts("aware", 630), Ts("naive", 630)},
                         n \in {1, 2}}
\* EmsFastExamEvent; fast_score is None when the exam has no positive finding
FastExam(case_id, symptom_onset_ts, fast_score) ==
    [case_id |-> case_id, symptom_onset_ts |-> symptom_onset_ts,
     last_known_well_ts |-> NoTs, fast_score |-> fast_score,
     face_droop |-> IF fast_score = Absent THEN "ABSENT" ELSE "PRESENT",
     arm_weakness |-> IF fast_score = Absent THEN "ABSENT" ELSE "LEFT",
     speech_difficulty |-> IF fast_score = Absent THEN "ABSENT" ELSE "APHASIA_SUSPECTED"]
FastExams ==
    {FastExam(c, ts, fs) : c \in Cases, ts \in {NoTs, Ts("aware", 0)},
                           fs \in {Absent, <<3>>}}
Capacities ==
    [hospital_id : Hospitals,
     stroke_center_level : {"PRIMARY", "COMPREHENSIVE", "THROMBECTOMY_CAPABLE"},
     estimated_additional_door_to_needle_minutes : {5}]
Topics == {"ems.vitals.raw", "ems.fast.exam", "hospital.capacity"}

\* _parse_iso: None for a missing or unparsable string
_parse_iso(ts) == IF ts.kind \in {"none", "invalid"} THEN Absent ELSE <<ts>>

\* _minutes_between, line 130: subtracting an offset-naive from an offset-aware
\* datetime (or the reverse) raises TypeError
minutes_between_raises(start, end) ==
    /\ _parse_iso(start) # Absent
    /\ _parse_iso(end) # Absent
    /\ start.kind # end.kind

\* _minutes_between: floor of the difference in minutes, None if either is missing
_minutes_between(start, end) ==
    IF _parse_iso(start) = Absent \/ _parse_iso(end) = Absent
    THEN Absent
    ELSE <<(end.sec - start.sec) \div 60>>

\* next((c for c in capacity_events if c.stroke_center_level == level), None)
first_of_level(capacity_events, level) ==
    LET idx == {i \in 1..Len(capacity_events) :
                    capacity_events[i].stroke_center_level = level} IN
    IF idx = {} THEN Absent
    ELSE <<capacity_events[CHOOSE i \in idx : \A j \in idx : i <= j]>>

\* _build_prediction_request raises when one of its two _minutes_between calls does
build_raises(vitals, fast_exam) ==
    \/ minutes_between_raises(fast_exam.symptom_onset_ts, vitals.event_ts)
    \/ minutes_between_raises(fast_exam.last_known_well_ts, vitals.event_ts)

\* _build_prediction_request: the feature vector (None without a FAST exam)
_build_prediction_request(vitals, fast_exam, capacity_events) ==
    IF fast_exam = Absent THEN Absent
    ELSE
    LET primary == first_of_level(capacity_events, "PRIMARY")
        comp == first_of_level(capacity_events, "COMPREHENSIVE") IN
    <<[case_id |-> vitals.case_id,
       heart_rate_bpm |-> vitals.heart_rate_bpm,
       systolic_bp_mmHg |-> vitals.systolic_bp_mmHg,
       spo2_pct |-> vitals.spo2_pct,
       gcs_total |-> vitals.gcs_total,
       face_droop_present |-> fast_exam.face_droop = "PRESENT",
       arm_weakness_any |-> fast_exam.arm_weakness \in {"LEFT", "RIGHT", "BILATERAL"},
       speech_abnormal_any |->
           fast_exam.speech_difficulty \in {"DYSARTHRIA", "APHASIA_SUSPECTED"},
       fast_score |-> fast_exam.fast_score,
       minutes_since_symptom_onset |->
           _minutes_between(fast_exam.symptom_onset_ts, vitals.event_ts),
       minutes_since_last_known_well |->
           _minutes_between(fast_exam.last_known_well_ts, vitals.event_ts),
       estimated_travel_min_to_primary_center |-> <<8>>,
       estimated_travel_min_to_comprehensive_center |-> <<15>>,
       primary_center_additional_door_to_needle_min |->
           IF primary = Absent THEN Absent
           ELSE <<primary[1].estimated_additional_door_to_needle_minutes>>,
       comprehensive_center_additional_door_to_needle_min |->
           IF comp = Absent THEN Absent
           ELSE <<comp[1].estimated_additional_door_to_needle_minutes>>,
       ems_suspected_lvo |->
           /\ fast_exam.fast_score # Absent
           /\ fast_exam.fast_score[1] # 0
           /\ fast_exam.fast_score[1] >= 2]>>

NoHospital == [hospital_id |-> Absent, type |-> Absent, travel_min |-> Absent,
               extra_dtn |-> Absent]

\* truth value of an Optional[int]: None and 0 are false
truthy(x) == x # Absent /\ x[1] # 0

\* truth value of an Optional[str]: None and "" are false
truthy_str(x) == x # Absent /\ x[1] # ""

\* _choose_hospital reporting the other tier's door-to-needle delay
_choose_hospital_other_delay(request, capacity_events) ==
    LET primary == first_of_level(capacity_events, "PRIMARY")
        comp == first_of_level(capacity_events, "COMPREHENSIVE")
        primary_id == IF primary # Absent THEN <<primary[1].hospital_id>> ELSE Absent
        comp_id == IF comp # Absent THEN <<comp[1].hospital_id>> ELSE Absent
        primary_travel == request.estimated_travel_min_to_primary_center
        comp_travel == request.estimated_travel_min_to_comprehensive_center IN
    IF /\ request.ems_suspected_lvo /\ truthy_str(comp_id) /\ truthy(comp_travel)
       /\ (primary_travel = Absent \/ comp_travel[1] <= primary_travel[1] + 15)
    THEN [hospital_id |-> comp_id,
          type |-> <<"COMPREHENSIVE_CENTER">>,
          travel_min |-> comp_travel,
          extra_dtn |-> request.primary_center_additional_door_to_needle_min]
    ELSE IF truthy_str(primary_id)
    THEN [hospital_id |-> primary_id,
          type |-> <<"PRIMARY_CENTER">>,
          travel_min |-> primary_travel,
          extra_dtn |-> request.comprehensive_center_additional_door_to_needle_min]
    ELSE NoHospital

\* _choose_hospital
_choose_hospital(request, capacity_events) ==
    LET primary == first_of_level(capacity_events, "PRIMARY")
        comp == first_of_level(capacity_events, "COMPREHENSIVE")
        primary_id == IF primary # Absent THEN <<primary[1].hospital_id>> ELSE Absent
        comp_id == IF comp # Absent THEN <<comp[1].hospital_id>> ELSE Absent
        primary_travel == request.estimated_travel_min_to_primary_center
        comp_travel == request.estimated_travel_min_to_comprehensive_center IN
    IF /\ request.ems_suspected_lvo /\ truthy_str(comp_id) /\ truthy(comp_travel)
       /\ (primary_travel = Absent \/ comp_travel[1] <= primary_travel[1] + 15)
    THEN [hospital_id |-> comp_id,
          type |-> <<"COMPREHENSIVE_CENTER">>,
          travel_min |-> comp_travel,
          extra_dtn |-> request.comprehensive_center_additional_door_to_needle_min]
    ELSE IF truthy_str(primary_id)
    THEN [hospital_id |-> primary_id,
          type |-> <<"PRIMARY_CENTER">>,
          travel_min |-> primary_travel,
          extra_dtn |-> request.primary_center_additional_door_to_needle_min]
    ELSE NoHospital

\* _categorize_risk whose MODERATE band is closed from above in the LVO probability
_categorize_risk_moderate_band(stroke_prob, lvo_prob) ==
    IF stroke_prob >= 8000 \/ lvo_prob >= 6000 THEN "CRITICAL"
    ELSE IF stroke_prob >= 6000 \/ lvo_prob >= 4000 THEN "HIGH"
    ELSE IF stroke_prob >= 3000 /\ lvo_prob < 3700 THEN "MODERATE"
    ELSE "LOW"

\* _categorize_risk with the HIGH thresholds tested first
_categorize_risk_high_first(stroke_prob, lvo_prob) ==
    IF stroke_prob >= 6000 \/ lvo_prob >= 4000 THEN "HIGH"
    ELSE IF stroke_prob >= 8000 \/ lvo_prob >= 6000 THEN "CRITICAL"
    ELSE IF stroke_prob >= 3000 THEN "MODERATE"
    ELSE "LOW"

\* _categorize_risk
_categorize_risk(stroke_prob, lvo_prob) ==
    IF stroke_prob >= 8000 \/ lvo_prob >= 6000 THEN "CRITICAL"
    ELSE IF stroke_prob >= 6000 \/ lvo_prob >= 4000 THEN "HIGH"
    ELSE IF stroke_prob >= 3000 THEN "MODERATE"
    ELSE "LOW"

\* rate < -threshold for a rate num / den and a threshold 1 / per
rate_below(rate, per) == rate # Absent /\ rate[1].num # 0 /\ rate[1].num * per < -rate[1].den

\* the adjustment of lines 661-669 without min(1.0, ...)
trend_adjusted_uncapped(value, trend_features) ==
    LET gcs == /\ trend_features.gcs_trend = <<-1>>
               /\ rate_below(trend_features.gcs_rate_of_change, 10)
        spo2 == /\ trend_features.spo2_trend = <<-1>>
                /\ rate_below(trend_features.spo2_rate_of_change, 2)
        stroke1 == IF gcs THEN value.stroke + 500 ELSE value.stroke
        lvo1 == IF gcs THEN value.lvo + 300 ELSE value.lvo IN
    [stroke |-> IF spo2 THEN stroke1 + 300 ELSE stroke1, lvo |-> lvo1]

\* _process_case, lines 659-669: the probabilities raised on a worsening trend
trend_adjusted(value, trend_features) ==
    LET gcs == /\ trend_features.gcs_trend = <<-1>>
               /\ rate_below(trend_features.gcs_rate_of_change, 10)
        spo2 == /\ trend_features.spo2_trend = <<-1>>
                /\ rate_below(trend_features.spo2_rate_of_change, 2)
        stroke1 == IF gcs THEN Min(One, value.stroke + 500) ELSE value.stroke
        lvo1 == IF gcs THEN Min(One, value.lvo + 300) ELSE value.lvo IN
    [stroke |-> IF spo2 THEN Min(One, stroke1 + 300) ELSE stroke1, lvo |-> lvo1]

\* volatility > threshold for a squared volatility num / den and the threshold's
\* square tnum / tden
volatile(volatility, tnum, tden) ==
    /\ volatility # Absent
    /\ volatility[1].num # 0
    /\ volatility[1].num * tden > tnum * volatility[1].den

\* _calculate_prediction_confidence with the weights left out and no clamp
_calculate_prediction_confidence_unweighted(request, trend_features, vitals, fast_exam) ==
    LET present(x) == IF x # Absent THEN 1000 ELSE 0
        mins == request.minutes_since_symptom_onset IN
    5000 + present(request.heart_rate_bpm) + present(request.systolic_bp_mmHg)
         + present(request.spo2_pct) + present(request.gcs_total)
         + present(request.fast_score) + present(mins)

\* _calculate_prediction_confidence
_calculate_prediction_confidence(request, trend_features, vitals, fast_exam) ==
    LET present(x) == IF x # Absent THEN 1000 ELSE 0
        mins == request.minutes_since_symptom_onset
        completeness_score ==
            present(request.heart_rate_bpm) + present(request.systolic_bp_mmHg)
            + present(request.spo2_pct) + present(request.gcs_total)
            + present(request.fast_score) + present(mins)
        stability_score ==
            Max(0, One - (IF volatile(trend_features.hr_volatility, 4, 100)
                          THEN 1000 ELSE 0)
                       - (IF volatile(trend_features.bp_volatility, 225, 10000)
                          THEN 1000 ELSE 0)
                       - (IF volatile(trend_features.spo2_volatility, 1, 100)
                          THEN 1000 ELSE 0))
        quality_score ==
            (IF truthy(request.fast_score) /\ request.fast_score[1] >= 2
             THEN 1500 ELSE 0)
            + (IF truthy(request.gcs_total) /\ 13 <= request.gcs_total[1]
                  /\ request.gcs_total[1] <= 15
               THEN 1000 ELSE 0)
            + (IF truthy(mins) /\ mins[1] <= 360 THEN 500 ELSE 0)
        anomaly_penalty == IF trend_features.gcs_trend = <<-1>> THEN 1000 ELSE 0
        confidence == 5000 + (completeness_score * 3) \div 10
                           + (stability_score * 2) \div 10
                           + (quality_score * 3) \div 10
                           - (anomaly_penalty * 2) \div 10 IN
    clamp01(confidence)

\* The importance scores before normalisation, in units of 1/300 so that
\* fast_score / 3.0 and the two-decimal weights are all whole numbers (0.8 is 240)
ImportanceOne == 300

\* the entries that the rules of _calculate_feature_importance put in the dict,
\* lines 564-597, as (name, score) pairs; a rule that does not apply adds nothing
importance_entries(request) ==
    (IF truthy(request.fast_score)
     THEN {<<"fast_score", Min(ImportanceOne, request.fast_score[1] * 100)>>} ELSE {})
    \cup (IF request.face_droop_present THEN {<<"face_droop", 240>>} ELSE {})
    \cup (IF request.arm_weakness_any THEN {<<"arm_weakness", 255>>} ELSE {})
    \cup (IF request.speech_abnormal_any THEN {<<"speech_abnormality", 225>>} ELSE {})
    \cup (IF request.gcs_total = Absent THEN {}
          ELSE IF request.gcs_total[1] < 13 THEN {<<"gcs_total", 270>>}
          ELSE IF request.gcs_total[1] < 15 THEN {<<"gcs_total", 180>>}
          ELSE {})
    \cup (IF request.minutes_since_symptom_onset = Absent THEN {}
          ELSE IF request.minutes_since_symptom_onset[1] <= 270 THEN {<<"time_window", 270>>}
          ELSE IF request.minutes_since_symptom_onset[1] <= 360 THEN {<<"time_window", 210>>}
          ELSE {<<"time_window", 120>>})
    \cup (IF request.systolic_bp_mmHg = Absent THEN {}
          ELSE IF request.systolic_bp_mmHg[1] > 180 THEN {<<"systolic_bp", 150>>}
          ELSE IF request.systolic_bp_mmHg[1] < 100 THEN {<<"systolic_bp", 120>>}
          ELSE {})

\* max(importance.values()) of a non-empty dict
max_importance_of(entries) ==
    CHOOSE m \in {e[2] : e \in entries} : \A e \in entries : m >= e[2]

\* _calculate_feature_importance without the normalisation of lines 600-603
_calculate_feature_importance_raw(request, stroke_prob, lvo_prob) ==
    LET entries == importance_entries(request) IN
    [name \in {e[1] : e \in entries} |->
        [num |-> (CHOOSE e \in entries : e[1] = name)[2], den |-> ImportanceOne]]

\* _calculate_feature_importance: a dict from feature name to score, each score
\* the exact fraction v / max_importance (v / 1 when nothing was normalised). The
\* two probabilities are parameters that the function does not read.
_calculate_feature_importance(request, stroke_prob, lvo_prob) ==
    LET entries == importance_entries(request) IN
    IF entries # {} /\ max_importance_of(entries) > 0
    THEN [name \in {e[1] : e \in entries} |->
             [num |-> (CHOOSE e \in entries : e[1] = name)[2],
              den |-> max_importance_of(entries)]]
    ELSE [name \in {e[1] : e \in entries} |->
             [num |-> (CHOOSE e \in entries : e[1] = name)[2], den |-> ImportanceOne]]

\* The processor's fields while one message is handled, with what the handler did
\* so far: raised (an exception is propagating), evaluations (predictions computed),
\* deps (how each dependency call of the evaluation ended), produce_errors
\* (exceptions of producer.produce that _publish_prediction swallowed), accepted
\* (the event the parser returned, if it returned one)
NoDeps == [vertex_ai |-> "none", gemini |-> "none"]
Store(raised, evaluations) ==
    [latest_vitals |-> latest_vitals, latest_fast_exam |-> latest_fast_exam,
     latest_capacity |-> latest_capacity, processed_cases |-> processed_cases,
     published |-> published, vital_history |-> vital_history,
     cb |-> BreakerState, deps |-> NoDeps, produce_errors |-> 0,
     accepted |-> Absent, raised |-> raised, evaluations |-> evaluations]

\* AiPredictionResponse assembled by _process_case (steps 5, 8, 9 and 11)
Prediction(case_id, vitals, request, value, risk_category, confidence, dest, explanation) ==
    [case_id |-> case_id,
     stroke_probability |-> value.stroke,
     lvo_probability |-> value.lvo,
     risk_category |-> risk_category,
     current_vitals |-> vitals,
     fast_score |-> request.fast_score,
     minutes_since_symptom_onset |-> request.minutes_since_symptom_onset,
     recommended_destination_hospital_id |-> dest.hospital_id,
     recommended_destination_type |-> dest.type,
     estimated_travel_min_to_recommended |-> dest.travel_min,
     estimated_additional_door_to_needle_min_at_recommended |-> dest.extra_dtn,
     llm_explanation |-> explanation,
     prediction_confidence |-> confidence]

\* an evaluation whose probabilities grow with the number of results already
\* published by the processor
evaluate_drifting(st, case_id, vitals, fast_exam, request, io) ==
    LET p == predict_with_vertex_ai(st.cb, request, now, io.vertex)
        value == [stroke |-> Min(One, p.value.stroke + 100 * Len(st.published)),
                  lvo |-> p.value.lvo]
        risk_category == _categorize_risk(value.stroke, value.lvo)
        dest == _choose_hospital(request, st.latest_capacity)
        e == generate_explanation_with_gemini(p.cb, request, value.stroke, value.lvo, risk_category, dest.hospital_id, now, io.gemini)
        prediction == Prediction(case_id, vitals, request, value, risk_category, One, dest, e.value) IN
    [st EXCEPT !.published = IF io.pub_ok THEN Append(@, prediction) ELSE @,
               !.produce_errors = IF io.pub_ok THEN @ ELSE @ + 1,
               !.processed_cases = @ \cup {case_id},
               !.evaluations = @ + 1,
               !.cb = e.cb,
               !.deps = [vertex_ai |-> p.outcome, gemini |-> e.outcome]]

\* an evaluation that marks the case only when producer.produce succeeded
evaluate_marking_if_published(st, case_id, vitals, fast_exam, request, io) ==
    LET trend_features == calculate_trends(st.vital_history[case_id])
        p == predict_with_vertex_ai(st.cb, request, now, io.vertex)
        value == trend_adjusted(p.value, trend_features)
        risk_category == _categorize_risk(value.stroke, value.lvo)
        confidence == _calculate_prediction_confidence(request, trend_features, vitals, fast_exam)
        dest == _choose_hospital(request, st.latest_capacity)
        e == generate_explanation_with_gemini(p.cb, request, value.stroke, value.lvo, risk_category, dest.hospital_id, now, io.gemini)
        prediction == Prediction(case_id, vitals, request, value, risk_category, confidence, dest, e.value) IN
    [st EXCEPT !.published = IF io.pub_ok THEN Append(@, prediction) ELSE @,
               !.produce_errors = IF io.pub_ok THEN @ ELSE @ + 1,
               !.processed_cases = IF io.pub_ok THEN @ \cup {case_id} ELSE @,
               !.evaluations = @ + 1,
               !.cb = e.cb,
               !.deps = [vertex_ai |-> p.outcome, gemini |-> e.outcome]]

\* _process_case, lines 648-784: the evaluation proper, once the request is built.
\* io: what the outside does during it (the endpoint's response, Gemini's text,
\* whether producer.produce succeeds; _publish_prediction swallows its exception)
evaluate(st, case_id, vitals, fast_exam, request, io) ==
    LET trend_features == calculate_trends(st.vital_history[case_id])
        p == predict_with_vertex_ai(st.cb, request, now, io.vertex) IN
    IF p.raised THEN [st EXCEPT !.cb = p.cb, !.raised = TRUE,
                                !.deps = [NoDeps EXCEPT !.vertex_ai = p.outcome]]
    ELSE
    LET value == trend_adjusted(p.value, trend_features)
        risk_category == _categorize_risk(value.stroke, value.lvo)
        confidence == _calculate_prediction_confidence(request, trend_features,
                                                       vitals, fast_exam)
        dest == _choose_hospital(request, st.latest_capacity)
        e == generate_explanation_with_gemini(p.cb, request, value.stroke, value.lvo,
                                              risk_category, dest.hospital_id, now,
                                              io.gemini)
        prediction == Prediction(case_id, vitals, request, value, risk_category,
                                 confidence, dest, e.value) IN
    [st EXCEPT !.published = IF io.pub_ok THEN Append(@, prediction) ELSE @,
               !.produce_errors = IF io.pub_ok THEN @ ELSE @ + 1,
               !.processed_cases = @ \cup {case_id},
               !.evaluations = @ + 1,
               !.cb = e.cb,
               !.deps = [vertex_ai |-> p.outcome, gemini |-> e.outcome]]

\* _process_case that takes the FAST exam as optional: evaluates on a Reading alone
_process_case_exam_optional(st, case_id, io) ==
    IF case_id \in st.processed_cases THEN st
    ELSE
    LET vitals == st.latest_vitals[case_id] IN
    IF vitals = Absent THEN st
    ELSE
    [st EXCEPT !.published = IF io.pub_ok
                             THEN Append(@, [case_id |-> case_id,
                                             current_vitals |-> vitals])
                             ELSE @,
               !.processed_cases = @ \cup {case_id},
               !.evaluations = @ + 1]

\* _process_case without the processed_cases check of lines 627-628
_process_case_no_dedup(st, case_id, io) ==
    LET vitals == st.latest_vitals[case_id]
        fast_exam == st.latest_fast_exam[case_id] IN
    IF vitals = Absent \/ fast_exam = Absent THEN st
    ELSE IF build_raises(vitals, fast_exam) THEN [st EXCEPT !.raised = TRUE]
    ELSE
    LET request == _build_prediction_request(vitals, fast_exam, st.latest_capacity) IN
    evaluate(st, case_id, vitals, fast_exam, request[1], io)

\* _process_case
_process_case(st, case_id, io) ==
    IF case_id \in st.processed_cases THEN st
    ELSE
    LET vitals == st.latest_vitals[case_id]
        fast_exam == st.latest_fast_exam[case_id] IN
    IF vitals = Absent THEN st
    ELSE IF fast_exam = Absent THEN st
    ELSE IF build_raises(vitals, fast_exam) THEN [st EXCEPT !.raised = TRUE]
    ELSE
    LET request == _build_prediction_request(vitals, fast_exam, st.latest_capacity) IN
    IF request = Absent THEN st
    ELSE evaluate(st, case_id, vitals, fast_exam, request[1], io)

\* a statement of run after a call that may have raised: skipped while the
\* exception propagates
then_process_case(st, case_id, io) ==
    IF st.raised THEN st ELSE _process_case(st, case_id, io)

\* the handler's result becomes the processor's state; an exception leaves the loop
\* of run (only KeyboardInterrupt is caught, line 935)
Commit(st, topic, case_id, parsed, is_update) ==
    /\ latest_vitals' = st.latest_vitals
    /\ latest_fast_exam' = st.latest_fast_exam
    /\ latest_capacity' = st.latest_capacity
    /\ processed_cases' = st.processed_cases
    /\ published' = st.published
    /\ running' = IF st.raised THEN "crashed" ELSE "running"
    /\ consumed' = consumed + 1
    /\ last_event' = [topic |-> topic, case_id |-> case_id, parsed |-> parsed,
                      is_update |-> is_update, evaluations |-> st.evaluations,
                      emitted |-> Len(st.published) - Len(published),
                      raised |-> st.raised, deps |-> st.deps,
                      produce_errors |-> st.produce_errors, accepted |-> st.accepted]
    /\ vital_history' = st.vital_history
    /\ breakers' = st.cb.breakers
    /\ invocations' = st.cb.invocations
    /\ consec_failures' = st.cb.consec_failures
    /\ failures_total' = st.cb.failures_total
    /\ last_transition' = st.cb.last_transition
    /\ breaker_globals' = st.cb.breaker_globals
    /\ got' = st.cb.got
    /\ handling' = IF handling = <<>> THEN handling ELSE Tail(handling)
    /\ UNCHANGED <<now, pc, added, configured, call_args, call_result>>

\* Bound of the model: messages polled by run when the dependencies are configured
MaxCfgEvents == 6

Polling ==
    /\ running = "running"
    /\ consumed < (IF configured = {} THEN MaxEvents ELSE MaxCfgEvents)

\* What a dependency may answer: nothing is asked of one that is not configured
VertexResponses ==
    IF "vertex_ai" \in configured
    THEN {Absent, <<[stroke |-> 9000, lvo |-> 12000]>>}
    ELSE {Absent}
GeminiResponses ==
    IF "gemini" \in configured THEN {Absent, <<"llm text">>} ELSE {Absent}
IOs == [pub_ok : BOOLEAN, vertex : VertexResponses, gemini : GeminiResponses]

\* a handler that clears every evaluated mark when a Reading arrives
on_vitals_unmarking_all(vitals, io) ==
    /\ Polling
    /\ LET case_id == vitals.case_id
           is_update == case_id \in processed_cases
           st0 == Store(FALSE, 0)
           st1 == [st0 EXCEPT !.latest_vitals[case_id] = vitals,
                              !.accepted = <<vitals>>]
           st2 == [st1 EXCEPT !.processed_cases = {}]
           st3 == _process_case(st2, case_id, io) IN
       Commit(st3, "ems.vitals.raw", case_id, TRUE, is_update)

\* run, lines 893-909: a Reading on ems.vitals.raw
on_vitals(vitals, io) ==
    /\ Polling
    /\ LET case_id == vitals.case_id
           is_update == case_id \in processed_cases
           st0 == Store(FALSE, 0)
           st1 == [st0 EXCEPT !.latest_vitals[case_id] = vitals,
                              !.accepted = <<vitals>>]
           st2 == IF is_update
                  THEN [st1 EXCEPT !.processed_cases = @ \ {case_id}]
                  ELSE st1
           st3 == _process_case(st2, case_id, io) IN
       Commit(st3, "ems.vitals.raw", case_id, TRUE, is_update)

\* a handler that stores the ScreeningResult and leaves the evaluation to a later
\* event
on_fast_exam_storing_only(fast_exam, io) ==
    /\ Polling
    /\ LET case_id == fast_exam.case_id
           st0 == Store(FALSE, 0)
           st1 == [st0 EXCEPT !.latest_fast_exam[case_id] = fast_exam,
                              !.accepted = <<fast_exam>>] IN
       Commit(st1, "ems.fast.exam", case_id, TRUE, case_id \in processed_cases)

\* run, lines 911-919 and 932-933: a ScreeningResult on ems.fast.exam
on_fast_exam(fast_exam, io) ==
    /\ Polling
    /\ LET case_id == fast_exam.case_id
           st0 == Store(FALSE, 0)
           st1 == [st0 EXCEPT !.latest_fast_exam[case_id] = fast_exam,
                              !.accepted = <<fast_exam>>]
           st2 == IF st1.latest_vitals[case_id] # Absent
                  THEN _process_case(st1, case_id, io)
                  ELSE st1
           st3 == then_process_case(st2, case_id, io) IN
       Commit(st3, "ems.fast.exam", case_id, TRUE, case_id \in processed_cases)

\* the list comprehension of line 925
without_hospital(capacity_events, hospital_id) ==
    SelectSeq(capacity_events, LAMBDA c : c.hospital_id # hospital_id)

\* a handler that appends the snapshot and keeps the facility's earlier entry
on_capacity_appending(capacity) ==
    /\ Polling
    /\ LET st0 == Store(FALSE, 0)
           st1 == [st0 EXCEPT !.latest_capacity = Append(@, capacity),
                              !.accepted = <<capacity>>] IN
       Commit(st1, "hospital.capacity", "none", TRUE, FALSE)

\* run, lines 921-933: a CapacitySnapshot on hospital.capacity (case_id stays None)
on_capacity(capacity) ==
    /\ Polling
    /\ LET st0 == Store(FALSE, 0)
           st1 == [st0 EXCEPT !.latest_capacity =
                       Append(without_hospital(@, capacity.hospital_id), capacity),
                              !.accepted = <<capacity>>] IN
       Commit(st1, "hospital.capacity", "none", TRUE, FALSE)

\* a loop that drops the evaluated marks when a message is rejected
on_malformed_resetting(topic) ==
    /\ Polling
    /\ Commit([Store(FALSE, 0) EXCEPT !.processed_cases = {}], topic, "none", FALSE, FALSE)

\* run with a message its parser rejects (_parse_* returns None)
on_malformed(topic) ==
    /\ Polling
    /\ Commit(Store(FALSE, 0), topic, "none", FALSE, FALSE)

\* KeyboardInterrupt, line 935
shutdown ==
    /\ running = "running"
    /\ running' = "stopped"
    /\ UNCHANGED <<latest_vitals, latest_fast_exam, latest_capacity, processed_cases,
                   published, consumed, last_event, vital_history, added,
                   configured, call_args, call_result, handling>>
    /\ UNCHANGED breaker_vars

NoEvent == [topic |-> "none", case_id |-> "none", parsed |-> FALSE,
            is_update |-> FALSE, evaluations |-> 0, emitted |-> 0, raised |-> FALSE,
            deps |-> NoDeps, produce_errors |-> 0, accepted |-> Absent]

\* StreamProcessor.__init__
ProcInit ==
    /\ latest_vitals = [c \in Cases |-> Absent]
    /\ latest_fast_exam = [c \in Cases |-> Absent]
    /\ latest_capacity = <<>>
    /\ processed_cases = {}
    /\ published = <<>>
    /\ running = "running"
    /\ consumed = 0
    /\ last_event = NoEvent
    /\ vital_history = [c \in Cases |-> <<>>]
    /\ added = [c \in Cases |-> 0]
    /\ configured = {}
    /\ call_args = <<>>
    /\ call_result = <<>>
    /\ handling = <<>>

BreakerInit ==
    /\ breakers = [b \in BreakerNames |-> NewBreaker]
    /\ now = 0
    /\ pc = [k \in Callers |-> Idle]
    /\ invocations = [b \in BreakerNames |-> 0]
    /\ consec_failures = [b \in BreakerNames |-> 0]
    /\ failures_total = [b \in BreakerNames |-> 0]
    /\ last_transition = [b \in BreakerNames |-> <<>>]
    /\ breaker_globals = [b \in BreakerNames |-> <<>>]
    /\ got = [b \in BreakerNames |-> {}]

Init == BreakerInit /\ ProcInit

\* one caller at a time, as in the single-threaded stream processor
BreakerNext ==
    \/ \E k \in SeqCallers, b \in BreakerNames : call_check(k, b)
    \/ \E k \in SeqCallers, ok \in BOOLEAN : call_return(k, ok)
    \/ \E k \in SeqCallers : caller_continue(k)
    \/ \E b \in BreakerNames : get_state(b)
    \/ Tick

SpecBreaker == Init /\ [][BreakerNext]_vars

\* several threads share the breakers
ConcNext ==
    \/ \E k \in Callers, b \in BreakerNames : call_check(k, b)
    \/ \E k \in Callers, ok \in BOOLEAN : call_return(k, ok)
    \/ \E k \in Callers : caller_continue(k)
    \/ \E b \in BreakerNames : get_state(b)
    \/ Tick

SpecConc == Init /\ [][ConcNext]_vars

\* breaker = get_vertex_ai_breaker() / get_gemini_breaker(), as the two services
\* and the health endpoint call them
call_get_breaker(b) ==
    /\ LET cb == get_breaker(BreakerState, b) IN
       /\ breakers' = cb.breakers
       /\ breaker_globals' = cb.breaker_globals
       /\ got' = cb.got
    /\ UNCHANGED <<now, pc, invocations, consec_failures, failures_total,
                   last_transition>>
    /\ UNCHANGED proc_vars

\* one thread that fetches the breakers through their getters, any number of
\* times, and calls through the breakers it has fetched
SingletonNext ==
    \/ \E b \in BreakerNames : call_get_breaker(b)
    \/ \E k \in SeqCallers, b \in BreakerNames :
           breaker_globals[b] # Absent /\ call_check(k, b)
    \/ \E k \in SeqCallers, ok \in BOOLEAN : call_return(k, ok)
    \/ \E k \in SeqCallers : caller_continue(k)
    \/ \E b \in BreakerNames : get_state(b)
    \/ Tick

SpecSingleton == Init /\ [][SingletonNext]_vars

\* the ingestion loop of StreamProcessor.run, one message per step
Next ==
    \/ \E vitals \in Readings, io \in IOs : on_vitals(vitals, io)
    \/ \E fast_exam \in FastExams, io \in IOs : on_fast_exam(fast_exam, io)
    \/ \E capacity \in Capacities : on_capacity(capacity)
    \/ \E topic \in Topics : on_malformed(topic)
    \/ shutdown

Spec == Init /\ [][Next]_vars

\* The same loop in a deployment where GOOGLE_CLOUD_PROJECT, VERTEX_AI_ENDPOINT_ID
\* and GEMINI_API_KEY are set: the services go through their breakers. One case,
\* timestamps with offset.
CfgInit ==
    /\ BreakerInit
    /\ latest_vitals = [c \in Cases |-> Absent]
    /\ latest_fast_exam = [c \in Cases |-> Absent]
    /\ latest_capacity = <<>>
    /\ processed_cases = {}
    /\ published = <<>>
    /\ running = "running"
    /\ consumed = 0
    /\ last_event = NoEvent
    /\ vital_history = [c \in Cases |-> <<>>]
    /\ added = [c \in Cases |-> 0]
    /\ configured = BreakerNames
    /\ call_args = <<>>
    /\ call_result = <<>>
    /\ handling = <<>>

CfgReadings == {Reading("c1", Ts("aware", 630), 1)}
CfgFastExams == {FastExam("c1", Ts("aware", 0), <<3>>)}
\* the producer accepts every message here (its failures are explored under Spec)
CfgIOs == {io \in IOs : io.pub_ok}

\* no message for the time of a breaker timeout
Quiet ==
    /\ now + timeout <= MaxTime
    /\ now' = now + timeout
    /\ UNCHANGED <<breakers, pc, invocations, consec_failures,
                   failures_total, last_transition, breaker_globals, got>>
    /\ UNCHANGED proc_vars

CfgNext ==
    \/ \E vitals \in CfgReadings, io \in CfgIOs : on_vitals(vitals, io)
    \/ \E fast_exam \in CfgFastExams, io \in CfgIOs : on_fast_exam(fast_exam, io)
    \/ shutdown
    \/ Quiet

SpecCfg == CfgInit /\ [][CfgNext]_vars

\* The loop of run with the handling of a message in two steps: the message is
\* polled, then its handler (with the evaluations it makes) runs to its end.
StepMessages ==
    {[topic |-> "ems.vitals.raw", case_id |-> c,
      event |-> Reading(c, Ts("aware", 630), n)] : c \in Cases, n \in {1, 2}}
    \cup {[topic |-> "ems.fast.exam", case_id |-> c,
           event |-> FastExam(c, Ts("aware", 0), <<3>>)] : c \in Cases}

\* the dependencies are not configured and the producer accepts the result
StepIO == [pub_ok |-> TRUE, vertex |-> Absent, gemini |-> Absent]

\* a loop that takes the next message while a handler is still running, as a pool
\* of two workers without per-case ordering would
poll_concurrently(msg) ==
    /\ Polling
    /\ Len(handling) < 2
    /\ handling' = Append(handling, msg)
    /\ UNCHANGED <<latest_vitals, latest_fast_exam, latest_capacity, processed_cases,
                   published, running, consumed, last_event, vital_history, added,
                   configured, call_args, call_result>>
    /\ UNCHANGED breaker_vars

\* msg = self.consumer.poll(timeout=1.0), line 869: reached only when the handler
\* of the previous message has returned (one thread, synchronous calls)
poll(msg) ==
    /\ Polling
    /\ handling = <<>>
    /\ handling' = Append(handling, msg)
    /\ UNCHANGED <<latest_vitals, latest_fast_exam, latest_capacity, processed_cases,
                   published, running, consumed, last_event, vital_history, added,
                   configured, call_args, call_result>>
    /\ UNCHANGED breaker_vars

\* lines 876-933 for the message polled: its handler runs and returns (or raises)
handle ==
    /\ handling # <<>>
    /\ LET msg == handling[1] IN
       IF msg.topic = "ems.vitals.raw"
       THEN on_vitals(msg.event, StepIO)
       ELSE on_fast_exam(msg.event, StepIO)

StepNext ==
    \/ \E msg \in StepMessages : poll(msg)
    \/ handle

SpecSteps == Init /\ [][StepNext]_vars

\* The trend analyzer driven directly: add_vital_snapshot called for either case.
\* Bound of the model: calls of add_vital_snapshot over both cases
MaxAdds == 22

\* the k-th snapshot handed in for a case, one per minute; the heart rate tells the
\* cases apart
BaseHr(case_id) == IF case_id = "c1" THEN 80 ELSE 100
SnapshotNo(case_id, k) ==
    VitalSnapshot(Ts("aware", 60 * k), <<BaseHr(case_id) + (k % 3)>>, <<185>>, <<96>>,
                  IF k % 2 = 0 THEN Absent ELSE <<15>>)

WindowNext ==
    \E case_id \in Cases :
        /\ added["c1"] + added["c2"] < MaxAdds
        /\ add_vital_snapshot(case_id, SnapshotNo(case_id, added[case_id] + 1))

SpecWindow == Init /\ [][WindowNext]_vars

\* calculate_trends asked for a case after some snapshots were added to it.
\* Bound of the model: snapshots added before trends are asked for
MaxSnapshots == 3

\* snapshots with and without a heart rate and a GCS, taken at the same instant or
\* two minutes apart, or with a timestamp that does not parse
TrendSnapshots ==
    {VitalSnapshot(ts, hr, <<185>>, <<96>>, gcs) :
        ts \in {Ts("aware", 0), Ts("aware", 120), Ts("invalid", 0)},
        hr \in {Absent, <<0>>, <<80>>, <<86>>},
        gcs \in {Absent, <<15>>}}

\* features = self.trend_analyzer.calculate_trends(case_id)
call_calculate_trends_three_points(case_id) ==
    /\ call_result = <<>>
    /\ call_args' = [case_id |-> case_id, history |-> vital_history[case_id]]
    /\ call_result' = <<IF Len(vital_history[case_id]) < 3 THEN TrendFeatures
                        ELSE calculate_trends(vital_history[case_id])>>
    /\ UNCHANGED <<latest_vitals, latest_fast_exam, latest_capacity, processed_cases,
                   published, running, consumed, last_event, vital_history, added,
                   configured, handling>>
    /\ UNCHANGED breaker_vars

call_calculate_trends(case_id) ==
    /\ call_result = <<>>
    /\ call_args' = [case_id |-> case_id, history |-> vital_history[case_id]]
    /\ call_result' = <<calculate_trends(vital_history[case_id])>>
    /\ UNCHANGED <<latest_vitals, latest_fast_exam, latest_capacity, processed_cases,
                   published, running, consumed, last_event, vital_history, added,
                   configured, handling>>
    /\ UNCHANGED breaker_vars

TrendNext ==
    \/ \E snapshot \in TrendSnapshots :
           /\ call_result = <<>>
           /\ added["c1"] < MaxSnapshots
           /\ add_vital_snapshot("c1", snapshot)
    \/ call_calculate_trends("c1")

SpecTrend == Init /\ [][TrendNext]_vars

\* A function of the processor called once on arguments drawn from a set: the
\* processor as constructed, the arguments in call_args, nothing returned yet
CalledOn(inputs) ==
    /\ BreakerInit
    /\ latest_vitals = [c \in Cases |-> Absent]
    /\ latest_fast_exam = [c \in Cases |-> Absent]
    /\ latest_capacity = <<>>
    /\ processed_cases = {}
    /\ published = <<>>
    /\ running = "running"
    /\ consumed = 0
    /\ last_event = NoEvent
    /\ vital_history = [c \in Cases |-> <<>>]
    /\ added = [c \in Cases |-> 0]
    /\ configured = {}
    /\ call_args \in inputs
    /\ call_result = <<>>
    /\ handling = <<>>

\* the call returns; none of the functions called this way touches the processor
Returns(result) ==
    /\ call_result = <<>>
    /\ call_result' = <<result>>
    /\ UNCHANGED <<latest_vitals, latest_fast_exam, latest_capacity, processed_cases,
                   published, running, consumed, last_event, vital_history, added,
                   configured, call_args, handling>>
    /\ UNCHANGED breaker_vars

\* Probabilities around every threshold of _categorize_risk, and past 1.0 less the
\* trend increments
ProbGrid == {0, 2500, 2999, 3000, 5700, 5999, 6000, 7500, 7999, 8000, One}
LvoGrid == {0, 3700, 3999, 4000, 5700, 5999, 6000, One}

\* trend features with a falling GCS, with a falling SpO2, and with neither
GcsFalling ==
    [TrendFeatures EXCEPT !.gcs_trend = <<-1>>,
                          !.gcs_rate_of_change = <<[num |-> -180, den |-> 60]>>]
Spo2Falling ==
    [TrendFeatures EXCEPT !.spo2_trend = <<-1>>,
                          !.spo2_rate_of_change = <<[num |-> -60, den |-> 60]>>]

RiskInputs ==
    [value : [stroke : ProbGrid, lvo : LvoGrid],
     trend_features : {TrendFeatures, GcsFalling, Spo2Falling}]

\* _process_case, lines 657-671 and 741-778: the probabilities returned by the
\* prediction service are adjusted, categorized and emitted with their category
categorize_and_emit ==
    LET value == trend_adjusted(call_args.value, call_args.trend_features) IN
    Returns([stroke_probability |-> value.stroke, lvo_probability |-> value.lvo,
             risk_category |-> _categorize_risk(value.stroke, value.lvo)])

SpecRisk == CalledOn(RiskInputs) /\ [][categorize_and_emit]_vars

\* Bound of the model: snapshots in the capacity cache handed to _choose_hospital
MaxCached == 2

CapacityLists ==
    UNION {[1..n -> Capacities] : n \in 0..MaxCached}

\* the fields of AiPredictionRequest that _choose_hospital reads, the door-to-needle
\* delays taken from the cache as _build_prediction_request takes them
RouteInputs ==
    {[request |->
          [ems_suspected_lvo |-> flag,
           estimated_travel_min_to_primary_center |-> primary_travel,
           estimated_travel_min_to_comprehensive_center |-> comp_travel,
           primary_center_additional_door_to_needle_min |->
               IF first_of_level(capacity_events, "PRIMARY") = Absent THEN Absent
               ELSE <<5>>,
           comprehensive_center_additional_door_to_needle_min |->
               IF first_of_level(capacity_events, "COMPREHENSIVE") = Absent THEN Absent
               ELSE <<5>>],
      capacity_events |-> capacity_events] :
        flag \in BOOLEAN,
        primary_travel \in {Absent, <<8>>},
        comp_travel \in {Absent, <<0>>, <<15>>, <<23>>, <<24>>},
        capacity_events \in CapacityLists}

\* self._choose_hospital(request, capacity_list)
call_choose_hospital ==
    Returns(_choose_hospital(call_args.request, call_args.capacity_events))

SpecRoute == CalledOn(RouteInputs) /\ [][call_choose_hospital]_vars

\* capacity snapshots whose door-to-needle delays differ
DelayedCapacities ==
    [hospital_id : Hospitals,
     stroke_center_level : {"PRIMARY", "COMPREHENSIVE", "THROMBECTOMY_CAPABLE"},
     estimated_additional_door_to_needle_minutes : {5, 9}]

\* latest_capacity as lines 924-927 keep it: at most one snapshot per hospital_id
CapacityCaches ==
    {l \in UNION {[1..n -> DelayedCapacities] : n \in 0..MaxCached} :
        \A i, j \in 1..Len(l) : l[i].hospital_id = l[j].hospital_id => i = j}

\* a Reading and a FAST exam of one case (with and without the LVO flag) and the
\* capacity cache at the time of the evaluation
RecommendInputs ==
    {[vitals |-> Reading("c1", Ts("aware", 630), 1),
      fast_exam |-> FastExam("c1", Ts("aware", 0), fast_score),
      capacity_events |-> capacity_events] :
        fast_score \in {Absent, <<3>>},
        capacity_events \in CapacityCaches}

\* _process_case, lines 643 and 682: the request is built from the cache and the
\* destination chosen from the request and the same cache
recommend(vitals, fast_exam, capacity_events) ==
    LET request == _build_prediction_request(vitals, fast_exam, capacity_events) IN
    _choose_hospital(request[1], capacity_events)

call_recommend ==
    Returns(recommend(call_args.vitals, call_args.fast_exam, call_args.capacity_events))

SpecRecommend == CalledOn(RecommendInputs) /\ [][call_recommend]_vars

\* Bound of the model: capacity events in an arrival sequence
MaxArrivals == 2

\* snapshots of the two tiers that routing reads, with delays that differ
ArrivingCapacities ==
    [hospital_id : Hospitals,
     stroke_center_level : {"PRIMARY", "COMPREHENSIVE"},
     estimated_additional_door_to_needle_minutes : {5, 9}]

Arrivals == UNION {[1..n -> ArrivingCapacities] : n \in 0..MaxArrivals}

\* latest_capacity after run has handled the capacity events in order, lines 921-929
RECURSIVE cache_after(_)
cache_after(events) ==
    IF events = <<>> THEN <<>>
    ELSE LET capacity == events[Len(events)]
             before == cache_after(SubSeq(events, 1, Len(events) - 1)) IN
         Append(without_hospital(before, capacity.hospital_id), capacity)

\* the snapshots a cache holds, whatever their positions in the list
Snapshots(capacity_events) == {capacity_events[i] : i \in 1..Len(capacity_events)}

\* the same capacity events arriving in another order
Reorderings(events) ==
    {[i \in 1..Len(events) |-> events[p[i]]] : p \in Permutations(1..Len(events))}

\* one case evaluated after a sequence of capacity events, and after the same
\* events in another order
CommuteInputs ==
    UNION {{[vitals |-> Reading("c1", Ts("aware", 630), 1),
             fast_exam |-> FastExam("c1", Ts("aware", 0), fast_score),
             first |-> first, second |-> second] :
               fast_score \in {Absent, <<3>>}, second \in Reorderings(first)} :
           first \in Arrivals}

\* the destination chosen by an evaluation that follows each arrival sequence
call_recommend_after ==
    Returns([first |-> recommend(call_args.vitals, call_args.fast_exam,
                                 cache_after(call_args.first)),
             second |-> recommend(call_args.vitals, call_args.fast_exam,
                                  cache_after(call_args.second))])

SpecCommute == CalledOn(CommuteInputs) /\ [][call_recommend_after]_vars

\* trend features with every volatility above its threshold, and with every
\* volatility small
Unstable ==
    [TrendFeatures EXCEPT !.hr_volatility = <<[num |-> 1, den |-> 1]>>,
                          !.bp_volatility = <<[num |-> 1, den |-> 1]>>,
                          !.spo2_volatility = <<[num |-> 1, den |-> 1]>>]
Steady ==
    [TrendFeatures EXCEPT !.hr_volatility = <<[num |-> 1, den |-> One]>>,
                          !.bp_volatility = <<[num |-> 1, den |-> One]>>,
                          !.spo2_volatility = <<[num |-> 1, den |-> One]>>]

\* the fields of AiPredictionRequest that _calculate_prediction_confidence reads,
\* each missing, present, and present with a value that earns its quality bonus
ConfidenceInputs ==
    [request : [heart_rate_bpm : {Absent, <<88>>},
                systolic_bp_mmHg : {Absent, <<185>>},
                spo2_pct : {Absent, <<96>>},
                gcs_total : {Absent, <<12>>, <<15>>},
                fast_score : {Absent, <<0>>, <<3>>},
                minutes_since_symptom_onset : {Absent, <<10>>, <<400>>}],
     trend_features : {TrendFeatures, GcsFalling, Unstable, Steady}]

\* confidence = self._calculate_prediction_confidence(request, trend_features,
\* vitals, fast_exam); the two events are not read by the function
call_calculate_prediction_confidence ==
    Returns(_calculate_prediction_confidence(call_args.request,
                                             call_args.trend_features, Absent, Absent))

SpecConfidence == CalledOn(ConfidenceInputs) /\ [][call_calculate_prediction_confidence]_vars

----------------------------------------------------------------------------
(* Properties of the ingestion loop, checked under Spec                  *)

HasBoth(c) == latest_vitals[c] # Absent /\ latest_fast_exam[c] # Absent

\* C1: a prediction for a case is computed and published only in a state where the
\* store holds both a current Reading and a current ScreeningResult for that case:
\* every published result, every evaluation made by the latest handler and every
\* evaluated mark belongs to a case with both, and a result just published carries
\* the Reading the store holds.
C1_EvaluationNeedsBoth ==
    /\ \A i \in 1..Len(published) : HasBoth(published[i].case_id)
    /\ \A c \in processed_cases : HasBoth(c)
    /\ last_event.evaluations > 0 => HasBoth(last_event.case_id)
    /\ last_event.emitted > 0 =>
           published[Len(published)].current_vitals = latest_vitals[last_event.case_id]

\* a result was published for a case that got its ScreeningResult after its Reading
C1_Witness ==
    /\ last_event.topic = "ems.fast.exam"
    /\ last_event.evaluations = 1
    /\ last_event.emitted = 1
    /\ published[Len(published)].case_id = last_event.case_id

\* C2: when a Reading is accepted for a case that is already evaluated, exactly one
\* new evaluation of that case is performed, and it completes (a result is assembled
\* and handed to the producer, the case is marked evaluated again) before the loop
\* consumes the next event.
C2_ReadingReevaluatesOnce ==
    (last_event.topic = "ems.vitals.raw" /\ last_event.parsed /\ last_event.is_update)
        => /\ last_event.evaluations = 1
           /\ last_event.case_id \in processed_cases
           /\ running # "crashed"

\* C3: for a case that is already evaluated, a ScreeningResult for that case or a
\* CapacitySnapshot never triggers an evaluation and never clears the evaluated
\* mark; only a Reading for that very case takes the mark away.
C3_OnlyReadingRetriggers ==
    [][/\ (consumed' # consumed /\ last_event'.topic # "ems.vitals.raw") =>
              /\ processed_cases \subseteq processed_cases'
              /\ last_event'.case_id \in processed_cases =>
                     (last_event'.evaluations = 0 /\ published' = published)
              /\ \A i \in 1..Len(published') :
                     i > Len(published) => published'[i].case_id \notin processed_cases
       /\ \A c \in processed_cases \ processed_cases' :
              last_event'.topic = "ems.vitals.raw" /\ last_event'.case_id = c
      ]_vars

\* a ScreeningResult was handled for an evaluated case, which stayed evaluated
C3_Witness ==
    /\ last_event.topic = "ems.fast.exam"
    /\ last_event.is_update
    /\ last_event.evaluations = 0
    /\ last_event.case_id \in processed_cases
    /\ Len(published) = 1

----------------------------------------------------------------------------
(* Properties of the circuit breaker, checked under SpecBreaker (one caller), *)
(* and under SpecConc (two callers) for C10                                 *)

\* this step enters CircuitBreaker.call on breaker b (caller k leaves "idle")
Enters(k, b) == pc[k].at = "idle" /\ pc'[k].at # "idle" /\ pc'[k].breaker = b
\* ... and the call is rejected with CircuitBreakerOpenError, nothing written
Rejected(k, b) ==
    /\ pc'[k].at = "returned"
    /\ pc'[k].result = "open_error"
    /\ breakers'[b] = breakers[b]
    /\ invocations'[b] = invocations[b]
\* ... and the call goes on to the wrapped function
LetThrough(k, b) == pc'[k].at = "invoking" /\ invocations'[b] = invocations[b] + 1
\* this step records the outcome of a wrapped call on breaker b
Records(b, result) ==
    \E k \in Callers : /\ pc[k].at = "invoking"
                       /\ pc[k].breaker = b
                       /\ pc'[k].at = "returned"
                       /\ pc'[k].result = result
\* seconds since the last recorded failure of b (it has one)
Elapsed(b) == now - breakers[b].last_failure_time[1]
\* calls of b that are inside the wrapped function
InFlight(b) == Cardinality({k \in Callers : pc[k].at = "invoking" /\ pc[k].breaker = b})

\* C4: the failure that completes a run of failure_threshold consecutive failing
\* calls leaves the breaker Open, and a call entered after such a run before timeout
\* has elapsed raises CircuitBreakerOpenError without invoking the wrapped function.
C4_OpensAfterThreshold ==
    [][\A b \in BreakerNames :
        /\ (Records(b, "error") /\ consec_failures'[b] >= failure_threshold)
               => breakers'[b].state = OPEN
        /\ \A k \in Callers :
               (/\ Enters(k, b)
                /\ consec_failures[b] >= failure_threshold
                /\ breakers[b].last_failure_time # <<>>
                /\ Elapsed(b) < timeout)
               => Rejected(k, b)
      ]_vars

\* exactly failure_threshold failures from the initial Closed state, then a call
\* that was rejected
C4_Witness ==
    \E b \in BreakerNames :
        /\ failures_total[b] = failure_threshold
        /\ invocations[b] = failure_threshold
        /\ breakers[b].state = OPEN
        /\ pc["k1"] = [at |-> "returned", breaker |-> b, result |-> "open_error"]

\* C5: while Closed, every successful call resets failure_count to 0 and leaves the
\* breaker Closed, so the breaker opens from Closed only on the failure that
\* completes a run of failure_threshold consecutive failures.
C5_SuccessResetsCount ==
    [][\A b \in BreakerNames :
        /\ (breakers[b].state = CLOSED /\ Records(b, "ok"))
               => (breakers'[b].state = CLOSED /\ breakers'[b].failure_count = 0)
        /\ (breakers[b].state = CLOSED /\ breakers'[b].state # CLOSED)
               => (/\ Records(b, "error")
                   /\ breakers'[b].state = OPEN
                   /\ consec_failures'[b] >= failure_threshold)
      ]_vars

\* more failures in total than failure_threshold, and the breaker never left Closed
C5_Witness ==
    \E b \in BreakerNames :
        /\ failures_total[b] > failure_threshold
        /\ last_transition[b] = <<>>
        /\ breakers[b].state = CLOSED

\* C6: while Open, a call entered before timeout has elapsed since the last recorded
\* failure is rejected; one entered once timeout has elapsed moves the breaker to
\* HalfOpen with success_count 0 and is let through as the probe; and no second
\* call is inside the wrapped function until the probe's outcome is recorded.
C6_OpenRejectsThenProbes ==
    [][\A b \in BreakerNames :
        /\ \A k \in Callers :
               (Enters(k, b) /\ breakers[b].state = OPEN) =>
                   IF Elapsed(b) < timeout
                   THEN Rejected(k, b)
                   ELSE /\ LetThrough(k, b)
                        /\ breakers'[b] = [breakers[b] EXCEPT !.state = HALF_OPEN,
                                                              !.success_count = 0]
        /\ breakers'[b].state = HALF_OPEN => InFlight(b)' <= 1
      ]_vars

\* the probe is inside the wrapped function, exactly timeout after the failure
C6_Witness ==
    \E b \in BreakerNames :
        /\ breakers[b].state = HALF_OPEN
        /\ breakers[b].success_count = 0
        /\ last_transition[b] = <<OPEN, HALF_OPEN>>
        /\ Elapsed(b) = timeout
        /\ pc["k1"] = [at |-> "invoking", breaker |-> b, result |-> "none"]

\* C7: in HalfOpen each successful call increments success_count; the success that
\* brings it to success_threshold closes the breaker with failure_count and
\* success_count both 0, and fewer successes leave it HalfOpen.
C7_HalfOpenSuccesses ==
    [][\A b \in BreakerNames :
        (breakers[b].state = HALF_OPEN /\ Records(b, "ok")) =>
            IF breakers[b].success_count + 1 = success_threshold
            THEN breakers'[b] = [breakers[b] EXCEPT !.state = CLOSED,
                                                    !.failure_count = 0,
                                                    !.success_count = 0]
            ELSE /\ breakers[b].success_count + 1 < success_threshold
                 /\ breakers'[b] = [breakers[b] EXCEPT !.success_count = @ + 1]
      ]_vars

\* closed again by the success_threshold-th HalfOpen success
C7_Witness ==
    \E b \in BreakerNames :
        /\ last_transition[b] = <<HALF_OPEN, CLOSED>>
        /\ breakers[b].state = CLOSED
        /\ breakers[b].failure_count = 0
        /\ breakers[b].success_count = 0
        /\ pc["k1"] = [at |-> "returned", breaker |-> b, result |-> "ok"]

\* C8: in HalfOpen a single failing call moves the breaker straight back to Open,
\* whatever the counters, with success_count 0 and last_failure_time the time of
\* that failure; last_failure_time changes on failures only, and a call is let
\* through from Open only once timeout has elapsed since it.
C8_HalfOpenFailureReopens ==
    [][\A b \in BreakerNames :
        /\ (breakers[b].state = HALF_OPEN /\ Records(b, "error")) =>
               /\ breakers'[b].state = OPEN
               /\ breakers'[b].success_count = 0
               /\ breakers'[b].last_failure_time = <<now>>
               /\ breakers'[b].failure_count = breakers[b].failure_count + 1
        /\ breakers'[b].last_failure_time # breakers[b].last_failure_time
               => Records(b, "error")
        /\ \A k \in Callers :
               (Enters(k, b) /\ breakers[b].state = OPEN /\ LetThrough(k, b))
                   => Elapsed(b) >= timeout
      ]_vars

\* reopened by a failure that came after a HalfOpen success
C8_Witness ==
    \E b \in BreakerNames :
        /\ last_transition[b] = <<HALF_OPEN, OPEN>>
        /\ breakers[b].state = OPEN
        /\ consec_failures[b] = 1
        /\ breakers[b].last_failure_time = <<now>>

\* C9: the only mode changes are Closed->Open (a failure bringing failure_count to
\* failure_threshold), Open->HalfOpen (a call entered once timeout has elapsed),
\* HalfOpen->Closed (the success_threshold-th success) and HalfOpen->Open (a
\* failure); a step that is no entry to call and no recorded outcome, get_state
\* included, changes no breaker field.
C9_OnlyDefinedTransitions ==
    [][\A b \in BreakerNames :
        /\ breakers'[b].state # breakers[b].state =>
               \/ /\ breakers[b].state = CLOSED /\ breakers'[b].state = OPEN
                  /\ Records(b, "error")
                  /\ breakers'[b].failure_count >= failure_threshold
               \/ /\ breakers[b].state = OPEN /\ breakers'[b].state = HALF_OPEN
                  /\ \E k \in Callers : Enters(k, b) /\ LetThrough(k, b)
                  /\ Elapsed(b) >= timeout
               \/ /\ breakers[b].state = HALF_OPEN /\ breakers'[b].state = CLOSED
                  /\ Records(b, "ok")
                  /\ breakers[b].success_count + 1 >= success_threshold
               \/ /\ breakers[b].state = HALF_OPEN /\ breakers'[b].state = OPEN
                  /\ Records(b, "error")
        /\ breakers'[b] # breakers[b] =>
               \/ \E k \in Callers : Enters(k, b)
               \/ \E r \in {"ok", "error"} : Records(b, r)
      ]_vars

\* a breaker that went through all four transitions: opened, probed and reopened,
\* probed again and closed
C9_Witness ==
    \E b \in BreakerNames :
        /\ last_transition[b] = <<HALF_OPEN, CLOSED>>
        /\ failures_total[b] = failure_threshold + 1
        /\ now >= 2 * timeout

\* C10: with two or more concurrent callers every transition is atomic: no
\* interleaving yields a mode or counter value that no sequential ordering of the
\* calls yields (an Open breaker has failure_count >= failure_threshold, a Closed
\* one failure_count < failure_threshold), and after an Open->HalfOpen transition
\* no second call reaches the wrapped function while the probe is inside it.
C10_AtomicTransitions ==
    \A b \in BreakerNames :
        /\ breakers[b].state = HALF_OPEN => InFlight(b) <= 1
        /\ breakers[b].state = OPEN => breakers[b].failure_count >= failure_threshold
        /\ breakers[b].state = CLOSED => breakers[b].failure_count < failure_threshold

\* C21: evaluating a case twice on the same Reading, ScreeningResult and capacity
\* cache, with the same dependency outcomes and no store change in between (the
\* Reading of a case just evaluated is sent again), gives the same stroke
\* probability, LVO probability, risk category and recommended facility.
C21_ReevaluationIdempotent ==
    [][(/\ last_event.emitted = 1
        /\ consumed' # consumed
        /\ last_event'.topic = "ems.vitals.raw"
        /\ last_event'.parsed
        /\ last_event'.case_id = last_event.case_id
        /\ latest_vitals' = latest_vitals
        /\ last_event'.deps = last_event.deps
        /\ last_event'.emitted = 1)
           => LET first == published[Len(published)]
                  second == published'[Len(published')] IN
              /\ second.case_id = first.case_id
              /\ second.stroke_probability = first.stroke_probability
              /\ second.lvo_probability = first.lvo_probability
              /\ second.risk_category = first.risk_category
              /\ second.recommended_destination_hospital_id
                     = first.recommended_destination_hospital_id
              /\ second.recommended_destination_type = first.recommended_destination_type
      ]_vars

\* the Reading of an evaluated case was sent again and a second result followed the
\* first, a facility being recommended in both
C21_Witness ==
    /\ Len(published) = 2
    /\ last_event.topic = "ems.vitals.raw"
    /\ last_event.is_update
    /\ last_event.emitted = 1
    /\ published[1].case_id = published[2].case_id
    /\ published[1].current_vitals = published[2].current_vitals
    /\ published[2].recommended_destination_hospital_id # Absent
    /\ published[1].recommended_destination_hospital_id
           = published[2].recommended_destination_hospital_id

\* the entries of a capacity cache that belong to other facilities than hospital_id
OthersIn(capacity_events, hospital_id) ==
    SelectSeq(capacity_events, LAMBDA c : c.hospital_id # hospital_id)

\* C22: after any sequence of CapacitySnapshot events the capacity cache holds at
\* most one entry per facility id, the entry of a facility is the snapshot most
\* recently accepted for it (an accepted snapshot is in the cache, and only a
\* CapacitySnapshot event changes the cache), and an upsert leaves the entries of
\* the other facilities as they were.
C22_CapacityUpsert ==
    [][/\ (consumed' # consumed /\ last_event'.topic = "hospital.capacity"
                                /\ last_event'.parsed) =>
              LET capacity == last_event'.accepted[1] IN
              /\ \A i, j \in 1..Len(latest_capacity') :
                     latest_capacity'[i].hospital_id = latest_capacity'[j].hospital_id
                         => i = j
              /\ \E i \in 1..Len(latest_capacity') : latest_capacity'[i] = capacity
              /\ OthersIn(latest_capacity', capacity.hospital_id)
                     = OthersIn(latest_capacity, capacity.hospital_id)
       /\ ~(last_event'.topic = "hospital.capacity" /\ last_event'.parsed) =>
              latest_capacity' = latest_capacity
      ]_vars

\* the snapshot just accepted for one facility stands in the cache behind the entry
\* of the other facility
C22_Witness ==
    /\ last_event.topic = "hospital.capacity"
    /\ last_event.parsed
    /\ consumed = 3
    /\ Len(latest_capacity) = 2
    /\ last_event.accepted = <<latest_capacity[2]>>
    /\ latest_capacity[1].hospital_id = "H2"
    /\ latest_capacity[2] = [hospital_id |-> "H1", stroke_center_level |-> "COMPREHENSIVE",
                             estimated_additional_door_to_needle_minutes |-> 5]

\* C23: each case has at most one current Reading and at most one current
\* ScreeningResult (the store maps a case to one of each), each the last event of its kind accepted for the case (an
\* accepted event becomes the current one of its case, and nothing else changes
\* it); an event for one case never changes the current Reading, the current
\* ScreeningResult or the evaluated mark of another case.
C23_OneCurrentEventPerCase ==
    [][LET topic == IF consumed' # consumed /\ last_event'.parsed
                    THEN last_event'.topic ELSE "none"
           c == last_event'.case_id IN
       /\ topic = "ems.vitals.raw" =>
              /\ last_event'.accepted[1].case_id = c
              /\ latest_vitals'[c] = last_event'.accepted[1]
              /\ latest_fast_exam' = latest_fast_exam
       /\ topic = "ems.fast.exam" =>
              /\ last_event'.accepted[1].case_id = c
              /\ latest_fast_exam'[c] = last_event'.accepted[1]
              /\ latest_vitals' = latest_vitals
       /\ topic \in {"ems.vitals.raw", "ems.fast.exam"} =>
              \A d \in Cases \ {c} :
                  /\ latest_vitals'[d] = latest_vitals[d]
                  /\ latest_fast_exam'[d] = latest_fast_exam[d]
                  /\ d \in processed_cases' <=> d \in processed_cases
       /\ topic \notin {"ems.vitals.raw", "ems.fast.exam"} =>
              /\ latest_vitals' = latest_vitals
              /\ latest_fast_exam' = latest_fast_exam
              /\ processed_cases' = processed_cases
      ]_vars

\* a second Reading replaced the first one of an evaluated case while the other
\* case stayed evaluated on its own Reading
C23_Witness ==
    /\ last_event.topic = "ems.vitals.raw"
    /\ last_event.is_update
    /\ last_event.case_id = "c1"
    /\ latest_vitals["c1"] = last_event.accepted[1]
    /\ Len(published) >= 2
    /\ published[1].case_id = "c1"
    /\ published[1].current_vitals # latest_vitals["c1"]
    /\ latest_vitals["c2"] # Absent

\* C24: at no point are two evaluations of the same case in progress: among the
\* messages whose handler (and with it every evaluation it makes) has started and
\* not yet ended, at most one belongs to any given case, so an evaluation of a
\* case starts only after the previous one has emitted its result or failed.
C24_EvaluationsOfACaseOrdered ==
    \A c \in Cases :
        \A i, j \in 1..Len(handling) :
            (handling[i].case_id = c /\ handling[j].case_id = c) => i = j

\* the Reading that re-evaluates a case is being handled after the case's first
\* evaluation has published its result
C24_Witness ==
    /\ Len(handling) = 1
    /\ handling[1].topic = "ems.vitals.raw"
    /\ handling[1].case_id \in processed_cases
    /\ Len(published) = 1
    /\ published[1].case_id = handling[1].case_id

\* the capacity cache is empty or holds no facility of either tier
NoFacility ==
    /\ first_of_level(latest_capacity, "PRIMARY") = Absent
    /\ first_of_level(latest_capacity, "COMPREHENSIVE") = Absent

\* C25: a case that has a current Reading and a current ScreeningResult is
\* evaluated by the event that completes or renews its inputs even when the
\* capacity cache is empty or holds no facility of either tier, and the result
\* emitted then carries no recommended facility (id, type, travel and delay all
\* absent) and is otherwise complete.
C25_EvaluatedWithoutFacility ==
    LET c == last_event.case_id
        result == published[Len(published)] IN
    (/\ last_event.parsed
     /\ last_event.topic \in {"ems.vitals.raw", "ems.fast.exam"}
     /\ HasBoth(c)
     /\ ~(last_event.topic = "ems.fast.exam" /\ last_event.is_update)
     /\ NoFacility)
        => /\ last_event.evaluations = 1
           /\ c \in processed_cases
           /\ last_event.emitted = 1 =>
                  /\ result.recommended_destination_hospital_id = Absent
                  /\ result.recommended_destination_type = Absent
                  /\ result.estimated_travel_min_to_recommended = Absent
                  /\ result.estimated_additional_door_to_needle_min_at_recommended = Absent
                  /\ result.case_id = c
                  /\ result.current_vitals = latest_vitals[c]
                  /\ result.risk_category \in {"LOW", "MODERATE", "HIGH", "CRITICAL"}
                  /\ result.llm_explanation.source = "template"

\* a case was evaluated while the cache held a facility of neither tier only, and
\* its result names no facility
C25_Witness ==
    /\ latest_capacity # <<>>
    /\ NoFacility
    /\ last_event.evaluations = 1
    /\ last_event.emitted = 1
    /\ published[Len(published)].case_id = last_event.case_id
    /\ published[Len(published)].recommended_destination_hospital_id = Absent
    /\ published[Len(published)].estimated_travel_min_to_recommended = Absent

\* C32 as stated: a case is marked as processed only after the prediction of that
\* evaluation has been published; if publishing fails the case is not marked.
C32_MarkedOnlyIfPublished ==
    \A c \in Cases :
        (last_event.case_id = c /\ last_event.evaluations >= 1 /\ c \in processed_cases)
            => /\ last_event.emitted >= 1
               /\ published[Len(published)].case_id = c

\* C32 amended: a case is marked as processed only by a handler that evaluated it
\* and got as far as the attempt to publish the prediction, and it is marked
\* whether producer.produce succeeded or raised.
C32_MarkedAfterPublishAttempt ==
    [][\A c \in Cases :
           /\ (c \in processed_cases' /\ c \notin processed_cases)
                  => /\ last_event'.case_id = c
                     /\ last_event'.evaluations >= 1
                     /\ last_event'.emitted + last_event'.produce_errors
                            = last_event'.evaluations
           /\ (last_event'.case_id = c /\ last_event'.evaluations >= 1)
                  => c \in processed_cases'
      ]_vars

\* the ScreeningResult of c1 completed the case, producer.produce raised: nothing
\* was published and c1 is marked as processed
C32_Witness ==
    /\ last_event.topic = "ems.fast.exam"
    /\ last_event.case_id = "c1"
    /\ last_event.evaluations = 1
    /\ last_event.produce_errors = 1
    /\ last_event.emitted = 0
    /\ published = <<>>
    /\ "c1" \in processed_cases

\* the latest message was a ScreeningResult for a case that had a Reading and was
\* not marked as processed
CompletesCase ==
    /\ last_event.topic = "ems.fast.exam"
    /\ last_event.parsed
    /\ ~last_event.is_update
    /\ latest_vitals[last_event.case_id] # Absent

\* C33: each accepted inbound event causes at most one evaluation and at most one
\* emitted result; a ScreeningResult arriving for a not-yet-evaluated case that
\* already has a Reading causes exactly one evaluation, whose one result is handed
\* to the producer, although run calls _process_case twice for that event.
C33_OneEvaluationPerEvent ==
    /\ last_event.evaluations <= 1
    /\ last_event.emitted <= 1
    /\ CompletesCase
           => /\ last_event.evaluations = 1
              /\ last_event.emitted + last_event.produce_errors = 1

\* a ScreeningResult completed c1: one evaluation, one result published, c1 marked
C33_Witness ==
    /\ CompletesCase
    /\ last_event.case_id = "c1"
    /\ last_event.evaluations = 1
    /\ last_event.emitted = 1
    /\ Len(published) = 1
    /\ "c1" \in processed_cases

\* C34: between events, as long as no handler has raised, a case is marked as
\* processed if and only if the store holds both a current Reading and a current
\* ScreeningResult for it: no case rests with both inputs and no evaluation.
C34_MarkedIffBoth ==
    running # "crashed" =>
        \A c \in Cases : c \in processed_cases <=> HasBoth(c)

\* a CapacitySnapshot has just been handled while c1, holding both inputs, is
\* marked, and c2, holding a Reading only, is not
C34_Witness ==
    /\ running = "running"
    /\ last_event.topic = "hospital.capacity"
    /\ last_event.parsed
    /\ HasBoth("c1")
    /\ "c1" \in processed_cases
    /\ latest_vitals["c2"] # Absent
    /\ latest_fast_exam["c2"] = Absent
    /\ "c2" \notin processed_cases

\* C35: for any arrival order of the Readings of a case, the current Reading is the
\* one with the greatest sequence_number among those accepted so far: a step that
\* accepts a Reading leaves as current the greater of the stored one and the new
\* one, and a result emitted by that step is built from it.
C35_GreatestSequenceIsCurrent ==
    [][(last_event'.topic = "ems.vitals.raw" /\ last_event'.parsed /\ consumed' # consumed)
          => LET c == last_event'.case_id
                 arrived == last_event'.accepted[1].sequence_number
                 greatest == IF latest_vitals[c] = Absent THEN arrived
                             ELSE Max(latest_vitals[c].sequence_number, arrived) IN
             /\ latest_vitals'[c].sequence_number = greatest
             /\ last_event'.emitted = 1
                    => published'[Len(published')].current_vitals.sequence_number = greatest
      ]_vars

\* Readings 1 and 2 of c1 arrived in order after the ScreeningResult: the second
\* is current and the second result was built from it
C35_Witness ==
    /\ last_event.topic = "ems.vitals.raw"
    /\ last_event.case_id = "c1"
    /\ last_event.is_update
    /\ latest_vitals["c1"].sequence_number = 2
    /\ Len(published) = 2
    /\ published[1].current_vitals.sequence_number = 1
    /\ published[2].current_vitals.sequence_number = 2

----------------------------------------------------------------------------
(* Error handling of the ingestion loop, checked under Spec               *)

\* C12: no inbound event and no error raised while handling one ends the ingestion
\* loop: run leaves the state "running" only through the external shutdown signal,
\* which consumes nothing.
C12_OnlyShutdownStops ==
    [][(running = "running" /\ running' # "running")
           => (running' = "stopped" /\ consumed' = consumed)]_vars

\* C13: when building the feature vector of a case raises, the failure is local:
\* nothing is emitted for the case, the case is not marked evaluated, it keeps its
\* stored Reading and ScreeningResult, and the loop goes on to take the case's next
\* triggering event.
C13_BuildFailureIsLocal ==
    last_event.raised =>
        /\ last_event.emitted = 0
        /\ last_event.case_id \notin processed_cases
        /\ HasBoth(last_event.case_id)
        /\ running # "crashed"

\* C14: a message its parser rejects, on any topic, is discarded without effect on
\* the join state: the stored Readings, ScreeningResults and CapacitySnapshots, the
\* evaluated marks and every trend window are unchanged, no evaluation is made and
\* nothing is published.
C14_MalformedDiscarded ==
    [][(consumed' # consumed /\ ~last_event'.parsed) =>
           /\ UNCHANGED <<latest_vitals, latest_fast_exam, latest_capacity,
                          processed_cases, vital_history, published>>
           /\ last_event'.evaluations = 0
           /\ running' = running
      ]_vars

\* a rejected message arrived while the store held an evaluated case and a snapshot
C14_Witness ==
    /\ ~last_event.parsed
    /\ last_event.topic = "ems.vitals.raw"
    /\ processed_cases # {}
    /\ latest_capacity # <<>>
    /\ Len(published) = 1

\* C15: every accepted Reading is appended to its case's trend window by the
\* ingestion path: a case whose Reading the store holds has a non-empty window of at
\* most max_history_size snapshots, the newest of which is that Reading.
C15_ReadingsEnterWindow ==
    \A c \in Cases :
        latest_vitals[c] # Absent =>
            LET window == vital_history[c]
                vitals == latest_vitals[c] IN
            /\ window # <<>>
            /\ Len(window) <= max_history_size
            /\ window[Len(window)] =
                   VitalSnapshot(vitals.event_ts, vitals.heart_rate_bpm,
                                 vitals.systolic_bp_mmHg, vitals.spo2_pct,
                                 vitals.gcs_total)

----------------------------------------------------------------------------
(* Properties of the trend analyzer                                        *)

\* C16: after any sequence of add_vital_snapshot calls, each case's history holds at
\* most max_history_size snapshots, and they are exactly the most recently added
\* ones of that case in arrival order; a call for one case leaves the other case's
\* history as it was.
C16_WindowKeepsMostRecent ==
    \A c \in Cases :
        LET window == vital_history[c]
            n == added[c] IN
        /\ Len(window) = Min(n, max_history_size)
        /\ \A i \in 1..Len(window) :
               window[i] = SnapshotNo(c, n - Len(window) + i)

\* a case's history after an eviction, next to a shorter history of the other case
C16_Witness ==
    /\ added["c1"] = max_history_size + 1
    /\ Len(vital_history["c1"]) = max_history_size
    /\ vital_history["c1"][1] = SnapshotNo("c1", 2)
    /\ Len(vital_history["c2"]) = 1

\* the snapshots of the history handed to calculate_trends that carry a vital
Carrying(vital) == SelectSeq(call_args.history, LAMBDA sn : sn[vital] # Absent)

TrackedVitals ==
    {[vital |-> "heart_rate_bpm", rate |-> "hr_rate_of_change", trend |-> "hr_trend",
      volatility |-> "hr_volatility"],
     [vital |-> "systolic_bp_mmHg", rate |-> "bp_rate_of_change", trend |-> "bp_trend",
      volatility |-> "bp_volatility"],
     [vital |-> "spo2_pct", rate |-> "spo2_rate_of_change", trend |-> "spo2_trend",
      volatility |-> "spo2_volatility"],
     [vital |-> "gcs_total", rate |-> "gcs_rate_of_change", trend |-> "gcs_trend",
      volatility |-> "none"]}

\* the fields of TrendFeatures that exist for a tracked vital
FieldsOf(v) == {v.rate, v.trend} \cup (IF v.volatility = "none" THEN {} ELSE {v.volatility})

\* C17 as stated: for each tracked vital, calculate_trends leaves rate of change,
\* direction and volatility None while fewer than 2 snapshots of the window carry
\* the vital, and all of them are defined when exactly 2 snapshots carry it.
C17_DefinedAtTwoPoints ==
    call_result # <<>> =>
        \A v \in TrackedVitals :
            /\ Len(Carrying(v.vital)) < 2 =>
                   \A f \in FieldsOf(v) : call_result[1][f] = Absent
            /\ Len(Carrying(v.vital)) = 2 =>
                   \A f \in FieldsOf(v) : call_result[1][f] # Absent

\* C17, amended: with fewer than 2 carrying snapshots all of them are None; with 2
\* or more, rate of change and direction are defined exactly when the carrying
\* snapshots do not all have the same parsed timestamp, and volatility exactly when
\* the carried values do not sum to zero.
C17_DefinedAtTwoDistinctPoints ==
    call_result # <<>> =>
        \A v \in TrackedVitals :
            LET carrying == Carrying(v.vital)
                n == Len(carrying)
                spread == \E i, j \in 1..n :
                              _parse_timestamp(carrying[i].timestamp)
                                  # _parse_timestamp(carrying[j].timestamp)
                nonzero == \E i \in 1..n : carrying[i][v.vital][1] # 0 IN
            /\ n < 2 => \A f \in FieldsOf(v) : call_result[1][f] = Absent
            /\ n >= 2 =>
                   /\ call_result[1][v.rate] # Absent <=> spread
                   /\ call_result[1][v.trend] # Absent <=> spread
                   /\ v.volatility # "none" =>
                          (call_result[1][v.volatility] # Absent <=> nonzero)

\* trends asked for a window where exactly two snapshots, two minutes apart, carry the
\* heart rate and only one carries the GCS
C17_Witness ==
    /\ call_result # <<>>
    /\ Len(call_args.history) = 2
    /\ Len(Carrying("heart_rate_bpm")) = 2
    /\ Len(Carrying("gcs_total")) = 1
    /\ call_result[1].hr_rate_of_change = <<[num |-> 360, den |-> 120]>>
    /\ call_result[1].hr_volatility # Absent
    /\ call_result[1].gcs_rate_of_change = Absent

\* parsed timestamps of the snapshots carrying a vital: the earliest and the latest
Earliest(carrying) ==
    CHOOSE t \in {_parse_timestamp(carrying[i].timestamp) : i \in 1..Len(carrying)} :
        \A i \in 1..Len(carrying) : t <= _parse_timestamp(carrying[i].timestamp)
Latest(carrying) ==
    CHOOSE t \in {_parse_timestamp(carrying[i].timestamp) : i \in 1..Len(carrying)} :
        \A i \in 1..Len(carrying) : t >= _parse_timestamp(carrying[i].timestamp)

\* C26: for a vital carried by at least 2 snapshots, the rate of change is (value
\* at the latest timestamp - value at the earliest timestamp) divided by the
\* minutes elapsed between the two, whatever the order of arrival; rate and
\* direction are both None when no time elapsed, also when every timestamp fails
\* to parse.
C26_RateOverElapsedMinutes ==
    call_result # <<>> =>
        \A v \in TrackedVitals :
            LET carrying == Carrying(v.vital)
                rate == call_result[1][v.rate]
                trend == call_result[1][v.trend] IN
            Len(carrying) >= 2 =>
                LET elapsed_sec == Latest(carrying) - Earliest(carrying) IN
                IF elapsed_sec = 0
                THEN rate = Absent /\ trend = Absent
                ELSE /\ rate # Absent
                     /\ trend # Absent
                     /\ \E i, j \in 1..Len(carrying) :
                            /\ _parse_timestamp(carrying[i].timestamp) = Earliest(carrying)
                            /\ _parse_timestamp(carrying[j].timestamp) = Latest(carrying)
                            /\ rate[1].num * elapsed_sec
                                   = (carrying[j][v.vital][1] - carrying[i][v.vital][1])
                                         * 60 * rate[1].den

\* the later snapshot arrived first: heart rate 86 at minute 2 before 80 with a
\* timestamp that does not parse (read as second 0), a rate of +3 per minute; the
\* GCS, carried only by the two snapshots whose timestamps do not parse, has
\* neither rate nor direction
C26_Witness ==
    /\ call_result # <<>>
    /\ Len(call_args.history) = 3
    /\ call_args.history[1].timestamp = Ts("aware", 120)
    /\ call_args.history[1].heart_rate_bpm = <<86>>
    /\ call_args.history[1].gcs_total = Absent
    /\ call_args.history[2].timestamp = Ts("invalid", 0)
    /\ call_args.history[2].heart_rate_bpm = <<80>>
    /\ call_args.history[2].gcs_total = <<15>>
    /\ call_args.history[3].timestamp = Ts("invalid", 0)
    /\ call_args.history[3].heart_rate_bpm = Absent
    /\ call_args.history[3].gcs_total = <<15>>
    /\ call_result[1].hr_rate_of_change = <<[num |-> 360, den |-> 120]>>
    /\ call_result[1].hr_trend = <<1>>
    /\ call_result[1].gcs_rate_of_change = Absent
    /\ call_result[1].gcs_trend = Absent

\* Bound of the model: snapshots in a window handed to calculate_trends at once
MaxPoints == 2

\* snapshots 0, 10 or 20 minutes into the case, the oxygen saturation and the GCS
\* one or two units apart: rates of 0, 0.05, 0.1 and 0.2 per minute, both ways
DirectionSnapshots ==
    {VitalSnapshot(Ts("aware", sec), <<80>>, <<185>>, <<spo2>>, <<gcs>>) :
        sec \in {0, 600, 1200}, spo2 \in {94, 95, 96}, gcs \in {13, 14, 15}}

DirectionInputs ==
    [case_id : {"c1"},
     history : UNION {[1..n -> DirectionSnapshots] : n \in 2..MaxPoints}]

\* self.trend_analyzer.calculate_trends(case_id) on a window already filled
call_calculate_trends_on_window ==
    Returns(calculate_trends(call_args.history))

SpecDirection == CalledOn(DirectionInputs) /\ [][call_calculate_trends_on_window]_vars

MaxWindow == 3

\* snapshots carrying one vital at a value on either side of a threshold, two
\* complete snapshots and one carrying nothing
AnomalySnapshots ==
    {VitalSnapshot(Ts("aware", 0), <<hr>>, Absent, Absent, Absent) : hr \in {39, 40, 150, 151}}
        \cup {VitalSnapshot(Ts("aware", 0), Absent, <<bp>>, Absent, Absent) : bp \in {100, 150, 151}}
        \cup {VitalSnapshot(Ts("aware", 0), Absent, Absent, <<spo2>>, Absent) : spo2 \in {90, 94, 95}}
        \cup {VitalSnapshot(Ts("aware", 0), Absent, Absent, Absent, <<gcs>>) : gcs \in {13, 14, 15}}
        \cup {VitalSnapshot(Ts("aware", 0), <<80>>, <<120>>, <<96>>, <<15>>),
              VitalSnapshot(Ts("aware", 0), <<151>>, <<180>>, <<90>>, <<13>>),
              VitalSnapshot(Ts("aware", 0), Absent, Absent, Absent, Absent)}

AnomalyInputs ==
    [case_id : {"c1"},
     history : UNION {[1..n -> AnomalySnapshots] : n \in 0..MaxWindow}]

\* self.trend_analyzer.detect_anomalies(case_id) on the window of the case
call_detect_anomalies ==
    Returns(detect_anomalies(call_args.history))

SpecAnomaly == CalledOn(AnomalyInputs) /\ [][call_detect_anomalies]_vars

\* the listed conditions, read off the window handed in: each flag is present iff
\* its condition holds of the values carried, and there is no other flag
FlagsAsListed ==
    LET flags == {call_result[1][i].flag : i \in 1..Len(call_result[1])}
        gcs == Carrying("gcs_total")
        spo2 == Carrying("spo2_pct")
        hr == Carrying("heart_rate_bpm")
        bp == Carrying("systolic_bp_mmHg") IN
    /\ Cardinality(flags) = Len(call_result[1])
    /\ flags \subseteq {"Rapid GCS deterioration", "Significant SpO2 decline",
                        "Extreme heart rate", "Unusual BP variation"}
    /\ "Rapid GCS deterioration" \in flags
           <=> (gcs # <<>> /\ gcs[1].gcs_total[1] - gcs[Len(gcs)].gcs_total[1] >= 2)
    /\ "Significant SpO2 decline" \in flags
           <=> (spo2 # <<>> /\ spo2[1].spo2_pct[1] - spo2[Len(spo2)].spo2_pct[1] >= 5)
    /\ "Extreme heart rate" \in flags
           <=> \E i \in 1..Len(hr) :
                   hr[i].heart_rate_bpm[1] > 150 \/ hr[i].heart_rate_bpm[1] < 40
    /\ "Unusual BP variation" \in flags
           <=> \E i \in 1..(Len(bp) - 1) :
                   Abs(bp[i + 1].systolic_bp_mmHg[1] - bp[i].systolic_bp_mmHg[1]) > 50

\* C28 as stated: for every window of a case, whatever its length, detect_anomalies
\* flags exactly the listed conditions (GCS first-minus-last >= 2, SpO2
\* first-minus-last >= 5, heart rate maximum > 150 or minimum < 40, two
\* neighbouring systolic values more than 50 apart) and nothing else.
C28_FlagsWhateverTheLength ==
    call_result # <<>> => FlagsAsListed

\* C28 amended: for every window of at least 2 snapshots detect_anomalies flags
\* exactly the listed conditions and nothing else; for a window of fewer than 2
\* snapshots it flags nothing.
C28_FlagsFromTwoSnapshots ==
    call_result # <<>> =>
        IF Len(call_args.history) >= 2 THEN FlagsAsListed ELSE call_result[1] = <<>>

\* a window of three: GCS 15 -> 13, SpO2 96 -> 90, a heart rate of 151, and a
\* pressure that jumps by 60 and then comes back by 30, so that first and last are
\* only 30 apart: all four flags
C28_Witness ==
    /\ call_result # <<>>
    /\ call_args.history
           = <<VitalSnapshot(Ts("aware", 0), <<80>>, <<120>>, <<96>>, <<15>>),
               VitalSnapshot(Ts("aware", 0), <<151>>, <<180>>, <<90>>, <<13>>),
               VitalSnapshot(Ts("aware", 0), Absent, <<150>>, Absent, Absent)>>
    /\ Len(call_result[1]) = 4
    /\ call_result[1][4] = [flag |-> "Unusual BP variation", detail |-> <<60>>]

\* the fields of AiPredictionRequest that _calculate_feature_importance reads,
\* each missing or false, and present on either side of the thresholds of its rule
ImportanceInputs ==
    [request : [fast_score : {Absent, <<0>>, <<1>>, <<3>>},
                face_droop_present : BOOLEAN,
                arm_weakness_any : BOOLEAN,
                speech_abnormal_any : BOOLEAN,
                gcs_total : {Absent, <<12>>, <<14>>, <<15>>},
                minutes_since_symptom_onset : {Absent, <<270>>, <<360>>, <<361>>},
                systolic_bp_mmHg : {Absent, <<99>>, <<140>>, <<181>>}],
     value : {[stroke |-> 6000, lvo |-> 3000]}]

\* feature_importance = self._calculate_feature_importance(request,
\* stroke_probability, lvo_probability)
call_calculate_feature_importance ==
    Returns(_calculate_feature_importance(call_args.request, call_args.value.stroke,
                                          call_args.value.lvo))

SpecImportance == CalledOn(ImportanceInputs) /\ [][call_calculate_feature_importance]_vars

\* some rule of _calculate_feature_importance applies to the request handed in
SomeRuleContributes ==
    LET request == call_args.request IN
    \/ truthy(request.fast_score)
    \/ request.face_droop_present
    \/ request.arm_weakness_any
    \/ request.speech_abnormal_any
    \/ request.gcs_total # Absent /\ request.gcs_total[1] < 15
    \/ request.minutes_since_symptom_onset # Absent
    \/ request.systolic_bp_mmHg # Absent
           /\ (request.systolic_bp_mmHg[1] > 180 \/ request.systolic_bp_mmHg[1] < 100)

\* C29: the feature-importance map is normalized: when it is non-empty its largest
\* value is exactly 1 and every value lies in (0, 1]; it is empty only when no
\* rule contributes an entry.
C29_ImportanceNormalized ==
    call_result # <<>> =>
        LET importance == call_result[1] IN
        /\ \A name \in DOMAIN importance :
               /\ importance[name].den > 0
               /\ importance[name].num > 0
               /\ importance[name].num <= importance[name].den
        /\ DOMAIN importance # {}
               => \E name \in DOMAIN importance : importance[name].num = importance[name].den
        /\ DOMAIN importance = {} <=> ~SomeRuleContributes

\* a FAST score of 1 with a facial droop more than 6 hours after onset: the droop
\* (0.8) is the largest and becomes 1, the FAST score 1/3 becomes 100/240 and the
\* time window 0.4 becomes 120/240; no raw score was 1
C29_Witness ==
    /\ call_result # <<>>
    /\ DOMAIN call_result[1] = {"fast_score", "face_droop", "time_window"}
    /\ call_result[1]["face_droop"] = [num |-> 240, den |-> 240]
    /\ call_result[1]["fast_score"] = [num |-> 100, den |-> 240]
    /\ call_result[1]["time_window"] = [num |-> 120, den |-> 240]

\* trend features as the adjustment can meet them: a GCS or an SpO2 falling faster
\* than its threshold, falling at exactly the threshold, both falling, a fast
\* negative rate under a direction that is not worsening, and none
GcsFallingSlowly ==
    [TrendFeatures EXCEPT !.gcs_trend = <<-1>>,
                          !.gcs_rate_of_change = <<[num |-> -60, den |-> 600]>>]
Spo2FallingSlowly ==
    [TrendFeatures EXCEPT !.spo2_trend = <<-1>>,
                          !.spo2_rate_of_change = <<[num |-> -300, den |-> 600]>>]
BothFalling ==
    [GcsFalling EXCEPT !.spo2_trend = <<-1>>,
                       !.spo2_rate_of_change = <<[num |-> -60, den |-> 60]>>]
NotWorsening ==
    [TrendFeatures EXCEPT !.gcs_trend = <<0>>,
                          !.gcs_rate_of_change = <<[num |-> -180, den |-> 60]>>,
                          !.spo2_trend = <<1>>,
                          !.spo2_rate_of_change = <<[num |-> -60, den |-> 60]>>]

\* outputs of the prediction service in [0, 1], some of them within one increment
\* of 1.0
AdjustInputs ==
    [value : [stroke : {0, 5000, 9200, 9201, 9500, 9501, 9700, 9701, One},
              lvo : {0, 5000, 9700, 9701, One}],
     trend_features : {TrendFeatures, GcsFalling, Spo2Falling, GcsFallingSlowly,
                       Spo2FallingSlowly, BothFalling, NotWorsening}]

SpecAdjust == CalledOn(AdjustInputs) /\ [][categorize_and_emit]_vars

\* C30: the trend-based adjustment only increases the probabilities returned by
\* the prediction service and caps them at 1.0: the emitted stroke and LVO
\* probabilities are at least the service's values and at most 1.0, and they are
\* the service's values when neither the GCS trend nor the SpO2 trend is worsening.
C30_AdjustmentRaisesAndCaps ==
    call_result # <<>> =>
        LET stroke_prob == call_args.value.stroke
            lvo_prob == call_args.value.lvo
            trend_features == call_args.trend_features
            emitted == call_result[1] IN
        /\ emitted.stroke_probability >= stroke_prob
        /\ emitted.stroke_probability <= One
        /\ emitted.lvo_probability >= lvo_prob
        /\ emitted.lvo_probability <= One
        /\ (trend_features.gcs_trend # <<-1>> /\ trend_features.spo2_trend # <<-1>>)
               => /\ emitted.stroke_probability = stroke_prob
                  /\ emitted.lvo_probability = lvo_prob

\* GCS and SpO2 both falling fast on 0.95 / 0.5: the stroke probability reaches
\* the cap at 1.0 instead of 1.03, the LVO probability goes up to 0.53
C30_Witness ==
    /\ call_result # <<>>
    /\ call_args.value = [stroke |-> 9500, lvo |-> 5000]
    /\ call_args.trend_features = BothFalling
    /\ call_result[1].stroke_probability = One
    /\ call_result[1].lvo_probability = 5300

\* C37: a call rejected with CircuitBreakerOpenError leaves mode, failure_count,
\* success_count and last_failure_time of its breaker as they were and is counted
\* neither as a failure nor as an invocation; last_failure_time is written only when
\* the failure of an invoked call is recorded, with the time of that failure; so an
\* Open breaker lets the next call through exactly when timeout has elapsed since
\* the last failure of an invoked call, however many calls were rejected meanwhile.
C37_RejectionChangesNothing ==
    [][\A b \in BreakerNames :
        /\ \A k \in Callers :
               (Enters(k, b) /\ pc'[k].result = "open_error") =>
                   /\ breakers'[b].state = breakers[b].state
                   /\ breakers'[b].failure_count = breakers[b].failure_count
                   /\ breakers'[b].success_count = breakers[b].success_count
                   /\ breakers'[b].last_failure_time = breakers[b].last_failure_time
                   /\ failures_total'[b] = failures_total[b]
                   /\ consec_failures'[b] = consec_failures[b]
                   /\ invocations'[b] = invocations[b]
        /\ breakers'[b].last_failure_time # breakers[b].last_failure_time
               => (Records(b, "error") /\ breakers'[b].last_failure_time = <<now>>)
        /\ \A k \in Callers :
               (Enters(k, b) /\ breakers[b].state = OPEN) =>
                   (pc'[k].at = "invoking" <=> Elapsed(b) >= timeout)
      ]_vars

\* a call rejected after the failure that opened the breaker, before timeout has
\* elapsed: the failure's time is still the one recorded
C37_Witness ==
    \E b \in BreakerNames :
        /\ pc["k1"] = [at |-> "returned", breaker |-> b, result |-> "open_error"]
        /\ breakers[b].state = OPEN
        /\ breakers[b].failure_count = failure_threshold
        /\ failures_total[b] = failure_threshold
        /\ breakers[b].last_failure_time = <<0>>
        /\ now = TickStep

\* C36: in every breaker state between calls, CLOSED implies failure_count <
\* failure_threshold; success_count < success_threshold, and success_count is
\* non-zero only in HALF_OPEN; OPEN or HALF_OPEN implies last_failure_time is set.
C36_FieldsConsistentBetweenCalls ==
    \A b \in BreakerNames :
        (\A k \in Callers : ~(pc[k].at = "invoking" /\ pc[k].breaker = b))
            => LET br == breakers[b] IN
               /\ br.state = CLOSED => br.failure_count < failure_threshold
               /\ br.success_count < success_threshold
               /\ br.success_count # 0 => br.state = HALF_OPEN
               /\ br.state \in {OPEN, HALF_OPEN} => br.last_failure_time # <<>>

\* between two calls a breaker that opened at time 0 is HALF_OPEN at time 30 with
\* one success counted on top of its three failures
C36_Witness ==
    /\ \A k \in Callers : pc[k].at # "invoking"
    /\ breakers["vertex_ai"].state = HALF_OPEN
    /\ breakers["vertex_ai"].success_count = 1
    /\ breakers["vertex_ai"].failure_count = failure_threshold
    /\ breakers["vertex_ai"].last_failure_time = <<0>>
    /\ now = timeout

\* C31: there is one breaker per protected dependency for the life of the process:
\* every call of a getter returns the same object, the two getters return different
\* objects, the object of a dependency is never replaced, so that fetching a
\* breaker again keeps the state it has accumulated, and a failure recorded for one
\* dependency leaves the other dependency's breaker as it was.
C31_OneBreakerPerDependency ==
    [][/\ \A b \in BreakerNames : Cardinality(got'[b]) <= 1
       /\ got'["vertex_ai"] \cap got'["gemini"] = {}
       /\ \A b \in BreakerNames :
              breaker_globals[b] # Absent => breaker_globals'[b] = breaker_globals[b]
       /\ (breaker_globals' # breaker_globals \/ got' # got) => breakers' = breakers
       /\ \A b \in BreakerNames :
              failures_total'[b] > failures_total[b]
                  => \A other \in BreakerNames \ {b} : breakers'[other] = breakers[other]
      ]_vars

\* both breakers fetched, the one of Vertex AI opened by three failures while the
\* one of Gemini, used once with success, is closed with no failure counted
C31_Witness ==
    /\ got = [vertex_ai |-> {1}, gemini |-> {2}]
    /\ breakers["vertex_ai"].state = OPEN
    /\ failures_total["vertex_ai"] = 3
    /\ invocations["gemini"] = 1
    /\ breakers["gemini"] = NewBreaker
    /\ pc["k1"].at = "returned"
    /\ pc["k1"].breaker = "gemini"

----------------------------------------------------------------------------
(* Properties of the functions of the evaluation                           *)

\* C18: the risk category emitted with a pair of probabilities is CRITICAL if
\* stroke >= 0.8 or lvo >= 0.6; else HIGH if stroke >= 0.6 or lvo >= 0.4; else
\* MODERATE if stroke >= 0.3; else LOW, where the pair is the one emitted in the
\* same result (the trend adjustment already applied).
C18_RiskCategoryTable ==
    call_result # <<>> =>
        LET r == call_result[1]
            stroke == r.stroke_probability
            lvo == r.lvo_probability
            critical == stroke * 10 >= 8 * One \/ lvo * 10 >= 6 * One
            high == ~critical /\ (stroke * 10 >= 6 * One \/ lvo * 10 >= 4 * One)
            moderate == ~critical /\ ~high /\ stroke * 10 >= 3 * One IN
        /\ r.risk_category = "CRITICAL" <=> critical
        /\ r.risk_category = "HIGH" <=> high
        /\ r.risk_category = "MODERATE" <=> moderate
        /\ r.risk_category = "LOW" <=> ~critical /\ ~high /\ ~moderate

\* a pair below the CRITICAL thresholds as predicted and CRITICAL as emitted, the
\* falling GCS having raised the stroke probability to 0.8
C18_Witness ==
    /\ call_result # <<>>
    /\ call_args.value = [stroke |-> 7500, lvo |-> 3700]
    /\ call_args.trend_features = GcsFalling
    /\ call_result[1] = [stroke_probability |-> 8000, lvo_probability |-> 4000,
                         risk_category |-> "CRITICAL"]

\* position of a risk category in the order LOW < MODERATE < HIGH < CRITICAL
Rank(risk_category) ==
    CASE risk_category = "LOW" -> 0
      [] risk_category = "MODERATE" -> 1
      [] risk_category = "HIGH" -> 2
      [] risk_category = "CRITICAL" -> 3

\* C40: _categorize_risk is monotone in both probabilities (a pair of probabilities
\* at least as high in both components never gets a lower category, in the order
\* LOW < MODERATE < HIGH < CRITICAL), and the category emitted after the trend-based
\* adjustment is at least the category of the unadjusted output of the prediction
\* service.
C40_CategoryMonotone ==
    call_result # <<>> =>
        LET stroke_prob == call_args.value.stroke
            lvo_prob == call_args.value.lvo
            unadjusted == _categorize_risk(stroke_prob, lvo_prob) IN
        /\ \A higher_stroke \in ProbGrid, higher_lvo \in LvoGrid :
               (higher_stroke >= stroke_prob /\ higher_lvo >= lvo_prob)
                   => Rank(_categorize_risk(higher_stroke, higher_lvo)) >= Rank(unadjusted)
        /\ Rank(call_result[1].risk_category) >= Rank(unadjusted)

\* 0.57 / 0.37 would be MODERATE; a fast-falling GCS raises it to 0.62 / 0.40 and
\* the emitted category is HIGH
C40_Witness ==
    /\ call_result # <<>>
    /\ call_args.value = [stroke |-> 5700, lvo |-> 3700]
    /\ call_args.trend_features = GcsFalling
    /\ _categorize_risk(call_args.value.stroke, call_args.value.lvo) = "MODERATE"
    /\ call_result[1].risk_category = "HIGH"

\* C38: whenever the evaluation recommends a facility, its id is the id of an entry
\* of the capacity cache the evaluation read, the recommended type is
\* PRIMARY_CENTER for a PRIMARY entry and COMPREHENSIVE_CENTER for a COMPREHENSIVE
\* entry, and the extra door-to-needle delay reported is the one stored in that
\* entry.
C38_RecommendedFromCache ==
    (call_result # <<>> /\ call_result[1].hospital_id # Absent) =>
        LET cache == call_args.capacity_events
            dest == call_result[1]
            held == {i \in 1..Len(cache) : cache[i].hospital_id = dest.hospital_id[1]} IN
        /\ held # {}
        /\ \A i \in held :
               /\ dest.type = IF cache[i].stroke_center_level = "PRIMARY"
                              THEN <<"PRIMARY_CENTER">>
                              ELSE IF cache[i].stroke_center_level = "COMPREHENSIVE"
                              THEN <<"COMPREHENSIVE_CENTER">>
                              ELSE Absent
               /\ dest.extra_dtn = <<cache[i].estimated_additional_door_to_needle_minutes>>

\* the higher-tier facility is recommended with its own delay while the cache also
\* holds a lower-tier facility with another delay
C38_Witness ==
    /\ call_result # <<>>
    /\ call_args.capacity_events =
           <<[hospital_id |-> "H1", stroke_center_level |-> "PRIMARY",
              estimated_additional_door_to_needle_minutes |-> 5],
             [hospital_id |-> "H2", stroke_center_level |-> "COMPREHENSIVE",
              estimated_additional_door_to_needle_minutes |-> 9]>>
    /\ call_result[1].hospital_id = <<"H2">>
    /\ call_result[1].type = <<"COMPREHENSIVE_CENTER">>
    /\ call_result[1].extra_dtn = <<9>>

\* C39: two sequences of capacity events that leave the cache with the same set of
\* facility snapshots yield the same recommended facility, type, travel estimate
\* and delay for an evaluation that follows, whatever the order in which the
\* snapshots arrived, also when several facilities share a tier.
C39_RoutingIgnoresArrivalOrder ==
    (/\ call_result # <<>>
     /\ Snapshots(cache_after(call_args.first)) = Snapshots(cache_after(call_args.second)))
        => call_result[1].first = call_result[1].second

\* facilities of different tiers arriving in either order: the same recommendation
C39_Witness ==
    /\ call_result # <<>>
    /\ Len(call_args.first) = 2
    /\ call_args.second = <<call_args.first[2], call_args.first[1]>>
    /\ call_args.first[1].hospital_id # call_args.first[2].hospital_id
    /\ call_args.first[1].stroke_center_level # call_args.first[2].stroke_center_level
    /\ call_result[1].first.hospital_id # Absent
    /\ call_result[1].first = call_result[1].second

C20_ConfidenceInUnitInterval ==
    call_result # <<>> => (0 <= call_result[1] /\ call_result[1] <= One)

\* the input on which every positive term is at its maximum and every penalty zero
C20_Witness ==
    /\ call_result = <<9700>>
    /\ \A f \in DOMAIN call_args.request : call_args.request[f] # Absent
    /\ call_args.request.fast_score = <<3>>
    /\ call_args.request.gcs_total = <<15>>
    /\ call_args.request.minutes_since_symptom_onset = <<10>>
    /\ call_args.trend_features = Steady

----------------------------------------------------------------------------
(* Properties of the evaluation with configured dependencies, under SpecCfg *)

\* the feature vector of case c as the store now holds its inputs
RequestOf(c) ==
    _build_prediction_request(latest_vitals[c], latest_fast_exam[c], latest_capacity)[1]

\* the probabilities the heuristic fallback gives case c, trend adjustment applied
FallbackValue(c) ==
    trend_adjusted(_heuristic_predict(RequestOf(c)), calculate_trends(vital_history[c]))

Failed == {"error", "open_error"}

\* C11: whatever the prediction and explanation dependencies do (answer, raise, or
\* be rejected by their open breaker), an evaluation whose precondition holds emits
\* a result: the services raise nothing to _process_case, and the result carries
\* the heuristic probabilities when the prediction call failed or was rejected and
\* the template explanation of the same inputs when the explanation call did.
C11_DependencyFailuresAbsorbed ==
    LET c == last_event.case_id
        d == last_event.deps
        result == published[Len(published)] IN
    /\ (/\ last_event.parsed
        /\ last_event.topic \in {"ems.vitals.raw", "ems.fast.exam"}
        /\ HasBoth(c)
        /\ ~(last_event.topic = "ems.fast.exam" /\ last_event.is_update))
           => d.vertex_ai # "none"
    /\ d.vertex_ai # "none" =>
           /\ ~last_event.raised
           /\ running # "crashed"
           /\ d.gemini # "none"
           /\ last_event.evaluations = 1
           /\ last_event.emitted = 1
           /\ result.case_id = c
    /\ d.vertex_ai \in Failed =>
           /\ result.stroke_probability = FallbackValue(c).stroke
           /\ result.lvo_probability = FallbackValue(c).lvo
    /\ d.gemini \in Failed =>
           result.llm_explanation =
               _generate_fallback_explanation(RequestOf(c), result.stroke_probability,
                                              result.lvo_probability,
                                              result.risk_category,
                                              result.recommended_destination_hospital_id)

\* an evaluation whose prediction call was rejected by the open breaker and whose
\* explanation call raised, and a result was still emitted
C11_Witness ==
    /\ last_event.deps = [vertex_ai |-> "open_error", gemini |-> "error"]
    /\ last_event.emitted = 1
    /\ published[Len(published)].llm_explanation.source = "template"
    /\ breakers["vertex_ai"].state = OPEN

====
